---------------------------- MODULE Spec2Model ----------------------------
(***************************************************************************)
(* A model of the post-creation and moderation pipeline of yib:            *)
(* handlers/actions.go (HandlePost, processImage, archiveOldThreads),      *)
(* database/database.go (GetBanDetails, DeletePost, DeletePostsByHash,     *)
(* CreateBan, IsHashBanned, GetBoard, ApplyFilters), handlers/moderation.go*)
(* (HandleBan) and models/services.go (RateLimiter,                        *)
(* ChallengeStore).                                                        *)
(*                                                                         *)
(* The database runs in WAL mode with foreign keys on (config.go:75).  A   *)
(* transaction that commits is serializable: one writer at a time, and a   *)
(* transaction that read a snapshot another writer has since changed fails *)
(* with SQLITE_BUSY when it first writes.  A committed transaction is      *)
(* therefore one atomic step of the model; a failing one is the same step  *)
(* taken with an injected fault, and it leaves the tables unchanged.       *)
(* What a handler does outside its transaction (the dedup lookup and the   *)
(* file save of processImage, the gate stages, the detached archiver) is a *)
(* step of its own, so that other requests interleave with it.             *)
(***************************************************************************)
EXTENDS Integers, Sequences, FiniteSets, TLC

(***************************************************************************)
(* Bounds of the model.                                                    *)
(***************************************************************************)
MaxPosts == 3        \* rows ever inserted into posts (AUTOINCREMENT ids 1..MaxPosts)
MaxTokens == 3       \* challenge tokens ever generated
MaxTime == 1         \* clock ticks
IPBits == 2          \* width of a raw IP address (32 in IPv4)
MaxVerify == 2       \* Verify calls made with one token
MaxBanLog == 2       \* apply_ban rows in mod_actions
MaxBanPosts == 1     \* threads opened while bans are exercised
MaxToggles == 2      \* toggle_lock rows in mod_actions
MaxReports == 2      \* rows ever inserted into reports
MaxMassLog == 1      \* mass_delete rows in mod_actions
MaxEdits == 2        \* edit_board rows in mod_actions
SmallBumpLimit == 1
SmallMaxThreads == 1 \* boards.max_threads of the board being archived

(***************************************************************************)
(* Program constants.  The clock counts days: the filter auto-ban lasts    *)
(* 24h = one tick, a challenge lives 5 minutes and a bucket refills every  *)
(* 30 seconds, so both are over when a day has passed.                     *)
(***************************************************************************)
Burst == 3                  \* rate.NewLimiter(rate.Every(30*time.Second), 3)
DefaultMaxThreads == 100    \* boards.max_threads DEFAULT 100
DefaultBumpLimit == 500     \* boards.bump_limit DEFAULT 500
FilterBanDays == 1          \* utils.GetSQLTime().Add(24 * time.Hour)

Procs == {"r1", "r2"}       \* request goroutines

NULL == <<"null", 0>>       \* SQL NULL
EmptyStr == <<"str", 0>>    \* the Go string "" (stored as TEXT '')
Str(n) == <<"str", n>>      \* the n-th distinct non-empty string
FilterBanReason == Str(9)   \* "Triggered spam filter (auto-ban)"
SQLTime(t) == <<"time", t>> \* a DATETIME value
TimeOf(v) == v[2]

VARIABLES
  db,          \* the committed tables of the SQLite database
  storage,     \* the set of stored asset paths (models.StorageService)
  fileSeq,     \* number of SaveFile calls so far (file names embed UnixNano)
  challenges,  \* ChallengeStore.Challenges: token -> answer
  tokenSeq,    \* tokens generated so far (uuid.New() never repeats)
  limiters,    \* RateLimiter.Limiters: ip -> tokens left in the bucket
  boardCache,  \* DatabaseService.boardCache: board id -> BoardConfig
  filtersCache,\* DatabaseService.filtersCache
  now,         \* the clock (utils.GetSQLTime)
  req,         \* per request goroutine: position in HandlePost and its locals
  archivers,   \* detached archiveOldThreads tasks not yet run, per board
  hist         \* history: what the operations did (for stating the claims)

vars == <<db, storage, fileSeq, challenges, tokenSeq, limiters, boardCache,
          filtersCache, now, req, archivers, hist>>

(***************************************************************************)
(* Small helpers on functions used as tables keyed by primary key.         *)
(***************************************************************************)
Without(f, ks) == [k \in DOMAIN f \ ks |-> f[k]]
With(f, k, v) == [x \in DOMAIN f \cup {k} |-> IF x = k THEN v ELSE f[x]]
Min(S) == CHOOSE m \in S : \A o \in S : m <= o
Pow2(n) == IF n <= 0 THEN 1 ELSE 2 ^ n

\* utils.BtoI
BtoI(b) == IF b THEN 1 ELSE 0

\* utils.HashIP: a salted SHA-256, modelled as an injective tagging.
HashIP(x) == <<"sha", x>>

\* crypto/sha256 over the uploaded bytes, hex encoded (processImage).
Sha256Hex(bytes) == <<"sha256", bytes>>

(***************************************************************************)
(* The bans table (schema.go:42-49, unique index on (hash, ban_type)).     *)
(* A row is [id, hash, ban_type, reason, created_at, expires_at].          *)
(***************************************************************************)

\* "expires_at IS NULL OR expires_at > ?" with ? = utils.GetSQLTime()
NeverExpiresBanActive(b, t) == TRUE
BanActive(b, t) == b.expires_at = NULL \/ TimeOf(b.expires_at) > t

\* net.ParseIP: a raw address is a number below 2^IPBits; anything else
\* (a garbage X-Forwarded-For value) does not parse.
ParseIPOk(ip) == ip >= 0 /\ ip < Pow2(IPBits)

\* net.ParseCIDR: a ban hash of the form <<"cidr", base, plen>> parses when
\* the prefix length fits the address width.
ParseCIDROk(h) == Len(h) = 3 /\ h[1] = "cidr" /\ h[3] >= 0 /\ h[3] <= IPBits
                  /\ h[2] >= 0 /\ h[2] < Pow2(IPBits)

\* net.IPNet.Contains: the address and the base agree on the prefix bits.
SubnetContains(h, ip) ==
  (ip \div Pow2(IPBits - h[3])) = (h[2] \div Pow2(IPBits - h[3]))

\* First query of GetBanDetails: the active exact-match bans.
ExactBans(bans, ipHash, cookieHash, t) ==
  {b \in bans : /\ BanActive(b, t)
                /\ \/ (b.ban_type = "ip" /\ b.hash = ipHash)
                   \/ (b.ban_type = "cookie" /\ b.hash = cookieHash)}

\* Second query of GetBanDetails: the active CIDR bans containing the address.
CidrBans(bans, ip, t) ==
  {b \in bans : /\ b.ban_type = "cidr" /\ BanActive(b, t)
                /\ ParseIPOk(ip) /\ ParseCIDROk(b.hash)
                /\ SubnetContains(b.hash, ip)}

NotBanned == [found |-> FALSE, Reason |-> EmptyStr, ExpiresAt |-> NULL, BanType |-> ""]
BanResult(b, type) ==
  [found |-> TRUE, Reason |-> b.reason, ExpiresAt |-> b.expires_at, BanType |-> type]

\* GetBanDetails: the set of results the queries can give.  ORDER BY
\* created_at DESC LIMIT 1 picks a newest exact match (any of them on a tie);
\* with no exact match the first CIDR row that contains the address wins, and
\* the scan order of that query is not fixed.
GetBanDetails(bans, ip, ipHash, cookieHash, t) ==
  LET ex == ExactBans(bans, ipHash, cookieHash, t)
      newest == {b \in ex : \A o \in ex : o.created_at <= b.created_at}
      cd == CidrBans(bans, ip, t)
  IN IF ex # {} THEN {BanResult(b, b.ban_type) : b \in newest}
     ELSE IF cd # {} THEN {BanResult(b, "cidr") : b \in cd}
     ELSE {NotBanned}

\* IsHashBanned
IgnoreExpiryIsHashBanned(bans, hash, banType, t) ==
  \E b \in bans : b.hash = hash /\ b.ban_type = banType
IsHashBanned(bans, hash, banType, t) ==
  \E b \in bans : b.hash = hash /\ b.ban_type = banType /\ BanActive(b, t)

\* INSERT INTO bans ... ON CONFLICT(hash, ban_type) DO UPDATE SET
\* reason=excluded.reason, expires_at=excluded.expires_at
InsertBan(D, hash, banType, reason, expiresAt, t) ==
  [D EXCEPT !.bans = D.bans \cup
     {[id |-> D.seqBans + 1, hash |-> hash, ban_type |-> banType,
       reason |-> reason, created_at |-> t, expires_at |-> expiresAt]},
   !.seqBans = D.seqBans + 1]
UpsertBan(D, hash, banType, reason, expiresAt, t) ==
  LET old == {b \in D.bans : b.hash = hash /\ b.ban_type = banType}
  IN IF old # {}
     THEN [D EXCEPT !.bans =
             {IF b \in old THEN [b EXCEPT !.reason = reason, !.expires_at = expiresAt]
                           ELSE b : b \in D.bans}]
     ELSE [D EXCEPT !.bans = D.bans \cup
             {[id |-> D.seqBans + 1, hash |-> hash, ban_type |-> banType,
               reason |-> reason, created_at |-> t, expires_at |-> expiresAt]},
           !.seqBans = D.seqBans + 1]

\* LogModAction: mod_actions is append-only; the model keeps, per action
\* kind, the number of rows.
LogModAction(D, action) ==
  [D EXCEPT !.mod_actions = With(D.mod_actions, action,
     IF action \in DOMAIN D.mod_actions THEN D.mod_actions[action] + 1 ELSE 1)]

InfallibleCreateBan(D, hash, banType, reason, modHash, expiresAt, t, fault) ==
  LogModAction(UpsertBan(D, hash, banType, reason, expiresAt, t), "apply_ban")
\* CreateBan: the tables after its transaction.  fault = "none" commits; any
\* other value is a failed statement or commit, which rolls back.
CreateBan(D, hash, banType, reason, modHash, expiresAt, t, fault) ==
  IF fault # "none" THEN D
  ELSE LET D1 == UpsertBan(D, hash, banType, reason, expiresAt, t)
       IN IF modHash # "" THEN LogModAction(D1, "apply_ban") ELSE D1

(***************************************************************************)
(* The threads, posts, backlinks and reports tables (schema.go:19-53).     *)
(* threads: id -> [board_id, bump, reply_count, image_count, locked,       *)
(*                 sticky, archived]                                       *)
(* posts:   id -> [board_id, thread_id, name, content, image_path,         *)
(*                 thumbnail_path, image_hash, ip_hash, cookie_hash]       *)
(* backlinks: set of <<source_post_id, target_post_id>> (the primary key)  *)
(* reports: set of [id, post_id]                                           *)
(***************************************************************************)
ThreadPosts(D, t) == {i \in DOMAIN D.posts : D.posts[i].thread_id = t}

\* (SELECT id FROM posts WHERE thread_id = p.thread_id ORDER BY id ASC LIMIT 1) = p.id
IsOp(D, postID) == Min(ThreadPosts(D, D.posts[postID].thread_id)) = postID

\* DELETE FROM posts WHERE id IN ids, with ON DELETE CASCADE on backlinks.
DeletePostRows(D, ids) ==
  [D EXCEPT !.posts = Without(D.posts, ids),
            !.backlinks = {e \in D.backlinks : e[1] \notin ids /\ e[2] \notin ids}]

\* DELETE FROM threads WHERE id = t, with ON DELETE CASCADE on posts.
NoCascadeDeleteThreadRow(D, t) == [D EXCEPT !.threads = Without(D.threads, {t})]
DeleteThreadRow(D, t) ==
  LET D1 == DeletePostRows(D, ThreadPosts(D, t))
  IN [D1 EXCEPT !.threads = Without(D1.threads, {t})]

\* The filesToCheck map of one post row: path -> hash, as pairs.
PostFiles(row) ==
  {[Path |-> row.image_path, Hash |-> row.image_hash]}
  \cup (IF row.thumbnail_path # NULL
        THEN {[Path |-> row.thumbnail_path, Hash |-> row.image_hash]} ELSE {})

\* SELECT image_path, thumbnail_path, image_hash FROM posts WHERE thread_id = ?
\* AND image_path IS NOT NULL AND image_path != ''
ThreadFiles(D, t) ==
  UNION {PostFiles(D.posts[i]) :
           i \in {j \in ThreadPosts(D, t) : D.posts[j].image_path # NULL
                                            /\ D.posts[j].image_path # EmptyStr}}

\* if imagePath.Valid && imageHash.Valid { ... } for the reply being deleted
ReplyFiles(row) ==
  IF row.image_path # NULL /\ row.image_hash # NULL THEN PostFiles(row) ELSE {}

\* SELECT COUNT of the rows of posts WHERE image_hash = ?
CountHash(D, h) == Cardinality({i \in DOMAIN D.posts : D.posts[i].image_hash = h})

\* The paths the cleanup loop hands to storage.DeleteFile: those of
\* filesToCheck whose hash no row of posts cites any more.
EveryPath(D, files) == {f.Path : f \in files}
Unreferenced(D, files) == {f.Path : f \in {g \in files : CountHash(D, g.Hash) = 0}}

\* UPDATE threads SET reply_count = reply_count - 1, and image_count - 1
\* "if imagePath.Valid", after a reply row was deleted.
NoDecrementReplyCounters(thr, row) ==
  [thr EXCEPT !.image_count = IF row.image_path # NULL THEN @ - 1 ELSE @]
DecrementReplyCounters(thr, row) ==
  [thr EXCEPT !.reply_count = @ - 1,
              !.image_count = IF row.image_path # NULL THEN @ - 1 ELSE @]

DeleteFaults == {"none", "statement", "commit"}

\* DeletePost(postID, storage, modHash, details): the outcome of the call on
\* tables D and stored paths S.  The files are removed inside the
\* transaction, before tx.Commit(): fault "statement" fails a statement
\* before the cleanup loop, fault "commit" fails the commit after it.
DeletePost(D, S, postID, modHash, fault) ==
  IF postID \notin DOMAIN D.posts \/ fault = "statement"
  THEN [D |-> D, S |-> S, err |-> TRUE, isOp |-> FALSE, reply |-> 0]
  ELSE
    LET row == D.posts[postID]
        t == row.thread_id
        op == IsOp(D, postID)
        files == IF op THEN ThreadFiles(D, t) ELSE ReplyFiles(row)
        D1 == IF op THEN DeleteThreadRow(D, t)
              ELSE LET Dd == DeletePostRows(D, {postID})
                   IN [Dd EXCEPT !.threads[t] = DecrementReplyCounters(@, row)]
        D2 == [D1 EXCEPT !.reports = {r \in D1.reports : r.post_id # postID}]
        D3 == IF modHash # ""
              THEN LogModAction(D2, IF op THEN "delete_thread" ELSE "delete_reply")
              ELSE D2
        S1 == S \ Unreferenced(D3, files)
    IN [D |-> IF fault = "commit" THEN D ELSE D3,
        S |-> S1,
        err |-> fault = "commit",
        isOp |-> op,
        reply |-> IF op \/ fault = "commit" THEN 0 ELSE t]

(***************************************************************************)
(* models/services.go: the challenge store and the rate limiter.           *)
(***************************************************************************)

\* ChallengeStore.GenerateChallenge: answer = a + b under a fresh token.
GenerateChallenge(ch, seq, a, b) == With(ch, seq + 1, a + b)

\* ChallengeStore.Verify, under cs.Mu: the token is deleted whatever the
\* answer; the result is true iff it existed and the answer matches.
KeepTokenVerify(ch, token, answer) ==
  [ok |-> token \in DOMAIN ch /\ ch[token] = answer, ch |-> ch]
Verify(ch, token, answer) ==
  [ok |-> token \in DOMAIN ch /\ ch[token] = answer,
   ch |-> Without(ch, {token})]

\* RateLimiter.GetLimiter(ip).Allow(): a new bucket starts full; Allow takes a
\* token when there is one.
UnlimitedAllow(lim, ip) ==
  LET have == IF ip \in DOMAIN lim THEN lim[ip] ELSE Burst
  IN [ok |-> TRUE, lim |-> With(lim, ip, IF have > 0 THEN have - 1 ELSE 0)]
Allow(lim, ip) ==
  LET have == IF ip \in DOMAIN lim THEN lim[ip] ELSE Burst
  IN [ok |-> have > 0, lim |-> With(lim, ip, IF have > 0 THEN have - 1 ELSE 0)]

(***************************************************************************)
(* The board cache and the filter cache (database.go).                     *)
(***************************************************************************)

\* GetBoard found no row: it returns an error and no BoardConfig.
NoBoard == [max_threads |-> 0, bump_limit |-> 0, image_required |-> FALSE]

\* GetBoard: the cached BoardConfig, else the boards row (which is cached).
GetBoard(D, cache, boardID) ==
  IF boardID \in DOMAIN cache
    THEN [err |-> FALSE, cfg |-> cache[boardID], cache |-> cache]
  ELSE IF boardID \in DOMAIN D.boards
    THEN [err |-> FALSE, cfg |-> D.boards[boardID],
          cache |-> With(cache, boardID, D.boards[boardID])]
  ELSE [err |-> TRUE, cfg |-> NoBoard, cache |-> cache]

\* ApplyFilters on one field.  A text is a set of words; a filter's regex
\* matches when its word occurs; "replace" swaps the word for the
\* replacement and the later filters see the rewritten text.
RECURSIVE ApplyFiltersFrom(_, _, _)
ApplyFiltersFrom(cache, i, text) ==
  IF i > Len(cache) THEN [err |-> "", text |-> text]
  ELSE IF cache[i].regex \in text
    THEN IF cache[i].action = "block" THEN [err |-> "blocked", text |-> {}]
         ELSE IF cache[i].action = "ban" THEN [err |-> "BAN_TRIGGERED", text |-> {}]
         ELSE IF cache[i].action = "replace"
           THEN ApplyFiltersFrom(cache, i + 1,
                                 (text \ {cache[i].regex}) \cup {cache[i].replacement})
         ELSE ApplyFiltersFrom(cache, i + 1, text)
  ELSE ApplyFiltersFrom(cache, i + 1, text)

\* (a variant that tests every filter on the text as submitted)
UnchainedApplyFilters(cache, text) ==
  LET hits == {i \in 1..Len(cache) : cache[i].regex \in text}
      stops == {i \in hits : cache[i].action \in {"block", "ban"}}
      first == CHOOSE i \in stops : \A o \in stops : i <= o
      gone == {cache[i].regex : i \in {h \in hits : cache[h].action = "replace"}}
      put == {cache[i].replacement : i \in {h \in hits : cache[h].action = "replace"}}
  IN IF stops # {}
     THEN [err |-> IF cache[first].action = "block" THEN "blocked" ELSE "BAN_TRIGGERED",
           text |-> {}]
     ELSE [err |-> "", text |-> (text \ gone) \cup put]
ApplyFilters(cache, text) == ApplyFiltersFrom(cache, 1, text)

(***************************************************************************)
(* processImage (actions.go:372-511) on the uploaded bytes.                *)
(***************************************************************************)
NoFile == "none"                        \* http.ErrMissingFile

\* limitedReader.N == 0 / len(data) == 0 / http.DetectContentType(data)
FileTooLarge(bytes) == bytes = "BIG"
FileEmpty(bytes) == bytes = "EMPTY"
DetectContentType(bytes) ==
  IF bytes = "X" THEN "image/png"
  ELSE IF bytes = "Y" THEN "video/mp4"
  ELSE "text/plain"
AllowedType(ct) ==
  ct \in {"image/jpeg", "image/png", "image/gif", "image/webp", "video/webm", "video/mp4"}

\* len(thumbData) > 0: the PNG decodes and gets a thumbnail; for the video
\* ffmpeg fails and the post goes on without one.
ThumbMade(bytes) == bytes = "X"

\* The stored paths of the k-th SaveFile pair; the names embed UnixNano.
MainPath(k) == <<"main", k>>
ThumbPath(k) == <<"thumb", k>>

\* SELECT image_path, thumbnail_path FROM posts WHERE image_hash = ?: the
\* rows QueryRow can return (it takes the first; the order is not fixed).
NoDedupRows(D, hash) == {}
DedupRows(D, hash) == {i \in DOMAIN D.posts : D.posts[i].image_hash = hash}

(***************************************************************************)
(* Initial state: InitDB has run the schema and seeded board 'b'           *)
(* (database.go:61-66); the caches and stores are empty.                   *)
(***************************************************************************)
SeedBoard ==
  [max_threads |-> DefaultMaxThreads, bump_limit |-> DefaultBumpLimit,
   image_required |-> FALSE]

InitDB ==
  [threads |-> <<>>, posts |-> <<>>, backlinks |-> {}, reports |-> {},
   bans |-> {}, mod_actions |-> <<>>, boards |-> [b \in {"b"} |-> SeedBoard],
   seqThreads |-> 0, seqPosts |-> 0, seqBans |-> 0, seqReports |-> 0]

NoInput == [ip |-> 0, cookie |-> 0]

Idle(status) ==
  [pc |-> "idle", status |-> status, error |-> "", in |-> NoInput, cfg |-> NoBoard,
   imagePath |-> EmptyStr, thumbPath |-> NULL, imageHash |-> EmptyStr,
   hasImage |-> FALSE]

Count(f, k) == IF k \in DOMAIN f THEN f[k] ELSE 0
Bump(f, k) == With(f, k, Count(f, k) + 1)

InitHist ==
  [ins |-> <<>>,        \* thread -> committed reply insertions
   del |-> <<>>,        \* thread -> committed reply deletions
   tries |-> <<>>,      \* token -> Verify calls made with it
   trues |-> <<>>,      \* token -> Verify calls that returned true
   warn |-> 0,          \* "Failed to insert backlink" warnings logged
   saved |-> {},        \* requests in flight that stored a new object
   passed |-> <<>>,     \* address -> requests that passed the rate limit
                        \* since the buckets were last refilled
   lk |-> {},           \* requests that began as replies to a thread that
                        \* was locked then and has not been unlocked since
   rej |-> {}]          \* the gate stages that rejected a request a later
                        \* stage had work for: a live token with its answer
                        \* (ban check, rate limit), a filter match
                        \* (challenge), and the filter stages that rejected

Init ==
  /\ db = InitDB
  /\ storage = {}
  /\ fileSeq = 0
  /\ challenges = <<>>
  /\ tokenSeq = 0
  /\ limiters = <<>>
  /\ boardCache = <<>>
  /\ filtersCache = <<>>
  /\ now = 0
  /\ req = [p \in Procs |-> Idle(0)]
  /\ archivers = <<>>
  /\ hist = InitHist

(***************************************************************************)
(* A page with a post form is rendered (render.go:112-116): the client is  *)
(* handed a fresh challenge.                                               *)
(***************************************************************************)
NewChallenge(a, b) ==
  /\ tokenSeq < MaxTokens
  /\ challenges' = GenerateChallenge(challenges, tokenSeq, a, b)
  /\ tokenSeq' = tokenSeq + 1
  /\ UNCHANGED hist
  /\ UNCHANGED <<db, storage, fileSeq, limiters, boardCache, filtersCache, now,
                 req, archivers>>

(***************************************************************************)
(* HandlePost, first step (actions.go:51-165): the gates, in order ban     *)
(* check, rate limit, challenge, board lookup, length check, filters.      *)
(* cf is the fault injected into CreateBan; gen = <<a, b>> are the numbers *)
(* of the replacement challenge.                                           *)
(***************************************************************************)
PostGate(p, in, cf, gen) ==
  /\ req[p].pc = "idle"
  /\ \E ban \in GetBanDetails(db.bans, in.ip, HashIP(in.ip), HashIP(in.cookie), now) :
       LET ipHash == HashIP(in.ip)
           cookieHash == HashIP(in.cookie)
           \* the evasion auto-bans
           D1 == IF ban.BanType = "cookie" /\ ~IsHashBanned(db.bans, ipHash, "ip", now)
                 THEN CreateBan(db, ipHash, "ip", ban.Reason, "system", ban.ExpiresAt, now, cf)
                 ELSE db
           D2 == IF ban.BanType \in {"ip", "cidr"}
                    /\ ~IsHashBanned(D1.bans, cookieHash, "cookie", now)
                 THEN CreateBan(D1, cookieHash, "cookie", ban.Reason, "system",
                                ban.ExpiresAt, now, cf)
                 ELSE D1
           al == Allow(limiters, in.ip)
           vr == Verify(challenges, in.token, in.answer)
           gb == GetBoard(db, boardCache, in.board_id)
           fn == ApplyFilters(filtersCache, in.name)
           fs == ApplyFilters(filtersCache, in.subject)
           fc == ApplyFilters(filtersCache, in.content)
           ferr == IF fn.err # "" THEN fn.err ELSE IF fs.err # "" THEN fs.err ELSE fc.err
           Dban == CreateBan(db, ipHash, "ip", FilterBanReason, "system",
                             SQLTime(now + FilterBanDays), now, cf)
           stage == IF ban.found THEN "banned"
                    ELSE IF ~al.ok THEN "ratelimit"
                    ELSE IF ~vr.ok THEN "challenge"
                    ELSE IF gb.err THEN "board"
                    ELSE IF in.tooLong THEN "length"
                    ELSE IF ferr = "BAN_TRIGGERED" THEN "filterban"
                    ELSE IF ferr # "" THEN "filterblock"
                    ELSE "pass"
           status == CASE stage \in {"banned", "challenge", "filterban"} -> 403
                       [] stage = "ratelimit" -> 429
                       [] stage \in {"board", "length", "filterblock"} -> 400
                       [] OTHER -> 0
       IN /\ stage = "challenge" => tokenSeq < MaxTokens
          /\ db' = IF stage = "banned" THEN D2
                   ELSE IF stage = "filterban" THEN Dban ELSE db
          /\ limiters' = IF stage = "banned" THEN limiters ELSE al.lim
          /\ challenges' = IF stage \in {"banned", "ratelimit"} THEN challenges
                           ELSE IF stage = "challenge"
                             THEN GenerateChallenge(vr.ch, tokenSeq, gen[1], gen[2])
                           ELSE vr.ch
          /\ tokenSeq' = IF stage = "challenge" THEN tokenSeq + 1 ELSE tokenSeq
          /\ boardCache' = IF stage \in {"banned", "ratelimit", "challenge"}
                           THEN boardCache ELSE gb.cache
          /\ req' = [req EXCEPT ![p] =
                       IF stage = "pass"
                       THEN [Idle(0) EXCEPT !.pc = "image",
                               !.in = [in EXCEPT !.name = fn.text, !.subject = fs.text,
                                                 !.content = fc.text,
                                                 !.token = 0, !.answer = 0],
                               !.cfg = gb.cfg]
                       ELSE [Idle(status) EXCEPT !.error = stage]]
          /\ hist' = [hist EXCEPT
                        !.tries = IF stage \notin {"banned", "ratelimit"}
                                  THEN Bump(@, in.token) ELSE @,
                        !.trues = IF stage \notin {"banned", "ratelimit"} /\ vr.ok
                                  THEN Bump(@, in.token) ELSE @,
                        !.passed = IF stage \notin {"banned", "ratelimit"}
                                   THEN Bump(@, in.ip) ELSE @,
                        !.lk = IF /\ stage = "pass"
                                  /\ in.thread_id \in DOMAIN db.threads
                                  /\ db.threads[in.thread_id].locked
                               THEN @ \cup {p} ELSE @ \ {p},
                        !.rej = IF \/ stage \in {"banned", "ratelimit"} /\ vr.ok
                                   \/ stage = "challenge" /\ ferr # ""
                                   \/ stage \in {"filterban", "filterblock"}
                                THEN @ \cup {stage} ELSE @]
  /\ UNCHANGED <<storage, fileSeq, filtersCache, now, archivers>>

(***************************************************************************)
(* HandlePost, second step (actions.go:167-177): processImage, then the    *)
(* blank-post check.  sf is the fault injected into SaveFile ("none",      *)
(* "main" or "thumb").                                                     *)
(***************************************************************************)
PostImage(p, sf) ==
  /\ req[p].pc = "image"
  /\ LET in == req[p].in
         bytes == in.file
         hash == Sha256Hex(bytes)
         rows == DedupRows(db, hash)
         bad == bytes # NoFile /\ (FileTooLarge(bytes) \/ FileEmpty(bytes)
                                   \/ ~AllowedType(DetectContentType(bytes)))
     IN IF bytes = NoFile
        THEN \* no file: hasImage = false
             /\ sf = "none"
             /\ req' = [req EXCEPT ![p] =
                          IF in.content = {} THEN Idle(400) ELSE [@ EXCEPT !.pc = "tx"]]
             /\ UNCHANGED <<storage, fileSeq>>
        ELSE IF bad
        THEN /\ sf = "none"
             /\ req' = [req EXCEPT ![p] = Idle(400)]
             /\ UNCHANGED <<storage, fileSeq>>
        ELSE \/ \* the hash is known: reuse the stored paths of that row
                \E i \in rows :
                  /\ db.posts[i].image_path # NULL
                  /\ sf = "none"
                  /\ req' = [req EXCEPT ![p] =
                               [@ EXCEPT !.pc = "tx", !.hasImage = TRUE,
                                         !.imagePath = db.posts[i].image_path,
                                         !.thumbPath = db.posts[i].thumbnail_path,
                                         !.imageHash = hash]]
                  /\ UNCHANGED <<storage, fileSeq>>
             \/ \* no row (or a row without a path): store the asset
                /\ rows = {} \/ \E i \in rows : db.posts[i].image_path = NULL
                /\ fileSeq' = fileSeq + 1
                /\ IF sf = "main"
                   THEN /\ req' = [req EXCEPT ![p] = Idle(400)]
                        /\ UNCHANGED storage
                   ELSE LET thumb == ThumbMade(bytes) /\ sf # "thumb"
                        IN /\ storage' = storage \cup {MainPath(fileSeq + 1)}
                                \cup (IF thumb THEN {ThumbPath(fileSeq + 1)} ELSE {})
                           /\ req' = [req EXCEPT ![p] =
                                [@ EXCEPT !.pc = "tx", !.hasImage = TRUE,
                                   !.imagePath = MainPath(fileSeq + 1),
                                   !.thumbPath = IF thumb THEN ThumbPath(fileSeq + 1)
                                                 ELSE NULL,
                                   !.imageHash = hash]]
  /\ hist' = [hist EXCEPT !.saved = IF storage' # storage THEN @ \cup {p} ELSE @ \ {p}]
  /\ UNCHANGED <<db, challenges, tokenSeq, limiters, boardCache, filtersCache, now,
                 archivers>>

(***************************************************************************)
(* HandlePost, third step (actions.go:182-283): the transaction.           *)
(***************************************************************************)
PostFaults == {"none", "thread", "post", "update", "backlink", "commit"}

\* The posts row HandlePost inserts; board_id is the form's board_id.
NewPostRow(r, threadID) ==
  [board_id |-> r.in.board_id, thread_id |-> threadID, name |-> r.in.name,
   content |-> r.in.content, image_path |-> r.imagePath,
   thumbnail_path |-> r.thumbPath, image_hash |-> r.imageHash,
   ip_hash |-> HashIP(r.in.ip), cookie_hash |-> HashIP(r.in.cookie)]

\* INSERT INTO threads (board_id, subject, bump, reply_count, image_count)
\* VALUES (?, ?, ?, 0, ?); locked, sticky, archived default to 0.
NewThreadRow(r, t) ==
  [board_id |-> r.in.board_id, bump |-> t, reply_count |-> 0,
   image_count |-> BtoI(r.hasImage), locked |-> FALSE, sticky |-> FALSE,
   archived |-> FALSE]

\* UPDATE threads SET reply_count = reply_count + 1, image_count =
\* image_count + ? [, bump = ?] WHERE id = ?   (actions.go:249-253)
\* A name is a set of words; the word "#sage" stands for a tripcode
\* password: GenerateTripcode keeps the part before the first '#'.
DisplayName(name) == name \ {"#sage"}
\* strings.ToLower on a word
ToLower(w) == IF w = "SAGE" THEN "sage" ELSE w
\* strings.Contains(text, "sage"): a word of the text has it as a substring
ContainsSage(text) == text \cap {"sage", "message"} # {}
\* strings.Contains(strings.ToLower(displayName), "sage")
Saged(name) == ContainsSage({ToLower(w) : w \in DisplayName(name)})

NoIncrementReplyCounters(thr, r, replyCount, t) == thr
AlwaysBumpReplyCounters(thr, r, replyCount, t) ==
  [thr EXCEPT !.reply_count = @ + 1,
              !.image_count = @ + BtoI(r.hasImage),
              !.bump = t]
IncrementReplyCounters(thr, r, replyCount, t) ==
  [thr EXCEPT !.reply_count = @ + 1,
              !.image_count = @ + BtoI(r.hasImage),
              !.bump = IF ~Saged(r.in.name) /\ replyCount < r.cfg.bump_limit
                       THEN t ELSE @]

\* A marker >>digits is a number m: its value is m % 10 and m \div 10 is
\* the number of zeros written before it (11 is ">>01").  strconv.ParseInt:
ParseInt(m) == m % 10

\* INSERT OR IGNORE INTO backlinks: the foreign keys reject an edge whose
\* target is not a row of posts, and lost is the set of targets whose insert
\* fails for another reason; an edge that is already a row (the PRIMARY KEY
\* source_post_id, target_post_id) is ignored without an error.
PlainInsert(rows, posts, row, lost) ==
  LET ok == row[2] \in posts /\ row[2] \notin lost /\ row \notin rows
  IN [rows |-> IF ok THEN rows \cup {row} ELSE rows, err |-> ~ok]
InsertOrIgnore(rows, posts, row, lost) ==
  LET ok == row[2] \in posts /\ row[2] \notin lost
  IN [rows |-> IF ok THEN rows \cup {row} ELSE rows, err |-> ~ok]

\* The loop over reBacklinks.FindAllStringSubmatch with the seen map, which
\* is keyed by the digits as written.  st = [rows, seen, warn]; an insert
\* that fails is logged (warn) and the loop goes on.
RECURSIVE BacklinkLoop(_, _, _, _, _, _)
BacklinkLoop(st, D, newPostID, refs, i, lost) ==
  IF i > Len(refs) THEN st
  ELSE LET m == refs[i]
           ins == InsertOrIgnore(st.rows, DOMAIN D.posts, <<newPostID, ParseInt(m)>>, lost)
           next == IF m \in st.seen THEN st
                   ELSE IF ParseInt(m) > 0
                     THEN [rows |-> ins.rows, seen |-> st.seen \cup {m},
                           warn |-> st.warn + BtoI(ins.err)]
                   ELSE [st EXCEPT !.seen = @ \cup {m}]
       IN BacklinkLoop(next, D, newPostID, refs, i + 1, lost)

\* The backlinks table after the loop, and the warnings it logged.
BacklinkEdges(D, newPostID, refs, lost) ==
  BacklinkLoop([rows |-> D.backlinks, seen |-> {}, warn |-> 0],
               D, newPostID, refs, 1, lost).rows
BacklinkWarnings(D, newPostID, refs, lost) ==
  BacklinkLoop([rows |-> D.backlinks, seen |-> {}, warn |-> 0],
               D, newPostID, refs, 1, lost).warn

RefTargets(refs) == {ParseInt(refs[k]) : k \in 1..Len(refs)}

\* The targets whose insert fails in that loop: the target is no row of
\* posts, or the statement fails for another reason.
FailedEdges(D, refs, lost) ==
  {k \in RefTargets(refs) : k > 0 /\ (k \notin DOMAIN D.posts \/ k \in lost)}

\* defer tx.Rollback(): a handler that returns before a successful Commit
\* leaves the tables as they were.
NoRollback(before, after, failed) == after
Rollback(before, after, failed) == IF failed THEN before ELSE after

Respond(p, status) == [req EXCEPT ![p] = Idle(status)]

\* SELECT locked, reply_count FROM threads WHERE id = ?, read in the
\* transaction (actions.go:226): the lock as committed when the reply is made.
NeverLocked(D, tid) == FALSE
ThreadLocked(D, tid) == D.threads[tid].locked

\* SELECT id FROM threads WHERE board_id = ? AND archived = 0 AND sticky = 0
Live(D, b) ==
  {t \in DOMAIN D.threads : /\ D.threads[t].board_id = b
                            /\ ~D.threads[t].archived /\ ~D.threads[t].sticky}

\* ... ORDER BY bump ASC LIMIT n: the sets of n threads with the oldest bumps
Oldest(D, live, n) ==
  {A \in SUBSET live : /\ Cardinality(A) = n
                       /\ \A x \in A, y \in live \ A :
                            D.threads[x].bump <= D.threads[y].bump}

\* UPDATE threads SET archived = 1 WHERE id IN (...) of archiveOldThreads.
SetArchived(D, ids) ==
  [D EXCEPT !.threads =
     [t \in DOMAIN @ |-> IF t \in ids THEN [@[t] EXCEPT !.archived = TRUE] ELSE @[t]]]

\* HandlePost starts the task with "go archiveOldThreads" (actions.go:221)
\* as soon as the thread and its OP are inserted, before the backlinks and
\* before tx.Commit (actions.go:276).  The task uses the connection pool,
\* not the transaction.  Scheduled before the commit (early), its queries
\* read the committed tables, without the new thread, which no other writer
\* can change while the transaction holds the write lock, and its UPDATE
\* waits for that lock: these are the threads it then archives.
EarlyArchived(D, cache, b, early) ==
  LET gb == GetBoard(D, cache, b)
      live == Live(D, b)
      over == Cardinality(live) - gb.cfg.max_threads
  IN IF early /\ ~gb.err /\ over > 0 THEN Oldest(D, live, over) ELSE {{}}

PostTxWith(p, f, early) ==
  /\ req[p].pc = "tx"
  /\ LET r == req[p]
         in == r.in
         newThread == in.thread_id = 0
         tid == IF newThread THEN db.seqThreads + 1 ELSE in.thread_id
         pid == db.seqPosts + 1
         found == tid \in DOMAIN db.threads
         \* the checks that answer before any row is written
         reject == IF newThread
                  THEN IF r.cfg.image_required /\ ~r.hasImage THEN 400 ELSE 0
                  ELSE IF ~found THEN 400
                  ELSE IF ThreadLocked(db, tid) THEN 403 ELSE 0
         replyCount == IF found THEN db.threads[tid].reply_count ELSE 0
         lost == IF f = "backlink" THEN {ParseInt(in.refs[1])} ELSE {}
         D1 == IF newThread
               THEN [db EXCEPT !.threads = With(@, tid, NewThreadRow(r, now)),
                               !.seqThreads = tid]
               ELSE db
         D2 == [D1 EXCEPT !.posts = With(@, pid, NewPostRow(r, tid)), !.seqPosts = pid]
         D3 == IF newThread THEN D2
               ELSE [D2 EXCEPT !.threads[tid] =
                       IncrementReplyCounters(@, r, replyCount, now)]
         D4 == [D3 EXCEPT !.backlinks = BacklinkEdges(D3, pid, in.refs, lost)]
         \* the foreign key threads.board_id -> boards(id)
         threadFails == f = "thread" \/ (newThread /\ in.board_id \notin DOMAIN db.boards)
         postFails == f = "post" \/ in.board_id \notin DOMAIN db.boards
         failed == threadFails \/ postFails \/ f \in {"update", "commit"}
         \* go archiveOldThreads(app, boardID) runs once the OP row is in
         spawned == newThread /\ ~threadFails /\ ~postFails
     IN IF reject # 0
        THEN /\ f = "none" /\ ~early
             /\ req' = Respond(p, reject)
             /\ hist' = [hist EXCEPT !.saved = @ \ {p}]
             /\ UNCHANGED <<db, archivers, boardCache>>
        ELSE /\ db.seqPosts < MaxPosts
             /\ f = "thread" => newThread
             /\ f = "update" => ~newThread
             /\ f = "backlink" => Len(in.refs) > 0 /\ ParseInt(in.refs[1]) \in DOMAIN D3.posts
             /\ early => spawned
             /\ \E A \in EarlyArchived(db, boardCache, in.board_id, early) :
                  db' = SetArchived(Rollback(db, D4, failed), A)
             /\ boardCache' = IF early
                               THEN GetBoard(db, boardCache, in.board_id).cache
                               ELSE boardCache
             /\ req' = Respond(p, IF failed THEN 500 ELSE 200)
             /\ archivers' = IF spawned /\ ~early
                             THEN Bump(archivers, in.board_id) ELSE archivers
             /\ hist' = [hist EXCEPT
                           !.saved = @ \ {p},
                           !.ins = IF ~failed /\ ~newThread THEN Bump(@, tid) ELSE @,
                           !.warn = IF threadFails \/ postFails \/ f = "update" THEN @
                                    ELSE @ + BacklinkWarnings(D3, pid, in.refs, lost)]
  /\ UNCHANGED <<storage, fileSeq, challenges, tokenSeq, limiters, filtersCache, now>>

\* The transaction with the detached task scheduled after the commit.
PostTx(p, f) == PostTxWith(p, f, FALSE)

\* The transaction with the detached task scheduled before the commit.
PostTxArchiverFirst(p, f) == PostTxWith(p, f, TRUE)

(***************************************************************************)
(* HandleModDelete and HandleCookieDelete: DeletePost with and without a   *)
(* moderator hash.                                                         *)
(***************************************************************************)
HandleModDelete(postID, f) ==
  /\ LET out == DeletePost(db, storage, postID, "mod", f)
     IN /\ db' = out.D
        /\ storage' = out.S
        /\ hist' = [hist EXCEPT
                      !.del = IF out.reply # 0 THEN Bump(@, out.reply) ELSE @]
  /\ UNCHANGED <<fileSeq, challenges, tokenSeq, limiters, boardCache, filtersCache,
                 now, req, archivers>>

\* The status HandleCookieDelete answers with (actions.go:300-321).
CookieDeleteStatus(D, cookie, postID, f) ==
  IF postID \notin DOMAIN D.posts THEN 404
  ELSE IF HashIP(cookie) # D.posts[postID].cookie_hash THEN 403
  ELSE IF f # "none" THEN 500 ELSE 200

UncheckedCookieDelete(cookie, postID, f) ==
  /\ postID \in DOMAIN db.posts
  /\ LET out == DeletePost(db, storage, postID, "", f)
     IN /\ db' = out.D
        /\ storage' = out.S
        /\ hist' = [hist EXCEPT
                      !.del = IF out.reply # 0 THEN Bump(@, out.reply) ELSE @]
  /\ UNCHANGED <<fileSeq, challenges, tokenSeq, limiters, boardCache, filtersCache,
                 now, req, archivers>>

HandleCookieDelete(cookie, postID, f) ==
  /\ postID \in DOMAIN db.posts
  /\ IF HashIP(cookie) # db.posts[postID].cookie_hash
     THEN /\ f = "none"
          /\ UNCHANGED hist
          /\ UNCHANGED <<db, storage>>
     ELSE LET out == DeletePost(db, storage, postID, "", f)
          IN /\ db' = out.D
             /\ storage' = out.S
             /\ hist' = [hist EXCEPT
                           !.del = IF out.reply # 0 THEN Bump(@, out.reply) ELSE @]
  /\ UNCHANGED <<fileSeq, challenges, tokenSeq, limiters, boardCache, filtersCache,
                 now, req, archivers>>

(***************************************************************************)
(* DeletePostsByHash (database.go:497-645).                                *)
(***************************************************************************)
\* One turn of the per-post loop on the running state st = [D, S, n, dels].
MassDeleteOne(st, postID) ==
  IF postID \notin DOMAIN st.D.posts
  THEN st   \* MIN(id) is NULL: the Scan fails and the loop continues
  ELSE
    LET D == st.D
        row == D.posts[postID]
        t == row.thread_id
        op == IsOp(D, postID)
        files == IF op THEN ThreadFiles(D, t)
                 ELSE IF row.image_path # NULL /\ row.image_hash # EmptyStr
                   THEN PostFiles(row) ELSE {}
        D1 == IF op THEN DeleteThreadRow(D, t)
              ELSE LET Dd == DeletePostRows(D, {postID})
                   IN [Dd EXCEPT !.threads[t] = DecrementReplyCounters(@, row)]
    IN [D |-> D1, S |-> st.S \ Unreferenced(D1, files), n |-> st.n + 1,
        dels |-> IF op THEN st.dels ELSE Bump(st.dels, t)]

RECURSIVE MassDeleteLoop(_, _)
MassDeleteLoop(st, todo) ==
  IF todo = {} THEN st
  ELSE MassDeleteLoop(MassDeleteOne(st, Min(todo)), todo \ {Min(todo)})

\* The rows of "SELECT id, ... FROM posts WHERE <column> = ?"
PostsByHash(D, hash, hashType) ==
  {i \in DOMAIN D.posts :
     IF hashType = "ip" THEN D.posts[i].ip_hash = hash
     ELSE D.posts[i].cookie_hash = hash}

\* Fault "skip" fails the DELETE of the first selected row: the loop logs
\* the error and continues with the next row.  Fault "log" fails
\* LogModAction and fault "commit" fails tx.Commit(): both roll back.
MassFaults == {"none", "skip", "log", "commit"}

DeletePostsByHash(D, S, hash, hashType, fault) ==
  LET todo == PostsByHash(D, hash, hashType)
      skipped == IF fault = "skip" THEN {Min(todo)} ELSE {}
      st == MassDeleteLoop([D |-> D, S |-> S, n |-> 0, dels |-> <<>>],
                           todo \ skipped)
      D1 == [st.D EXCEPT !.reports = {r \in @ : r.post_id \in DOMAIN st.D.posts}]
      D2 == LogModAction(D1, "mass_delete")
  IN IF hashType \notin {"ip", "cookie"} \/ todo = {}
     THEN [D |-> D, S |-> S, n |-> 0, dels |-> <<>>, err |-> hashType \notin {"ip", "cookie"}]
     ELSE IF fault \in {"log", "commit"}
     THEN [D |-> D, S |-> st.S, n |-> IF fault = "log" THEN 0 ELSE st.n,
           dels |-> <<>>, err |-> TRUE]
     ELSE [D |-> D2, S |-> st.S, n |-> st.n, dels |-> st.dels, err |-> FALSE]

AddCounts(f, g) ==
  [k \in DOMAIN f \cup DOMAIN g |-> Count(f, k) + Count(g, k)]

MassDelete(hash, hashType, f) ==
  /\ LET out == DeletePostsByHash(db, storage, hash, hashType, f)
     IN /\ db' = out.D
        /\ storage' = out.S
        /\ hist' = [hist EXCEPT !.del = AddCounts(@, out.dels)]
  /\ UNCHANGED <<fileSeq, challenges, tokenSeq, limiters, boardCache, filtersCache,
                 now, req, archivers>>

(***************************************************************************)
(* archiveOldThreads (actions.go:559-606), the detached task HandlePost    *)
(* starts after inserting a new thread.                                    *)
(***************************************************************************)
ArchiveOldThreads(b) ==
  /\ Count(archivers, b) > 0
  /\ archivers' = [archivers EXCEPT ![b] = @ - 1]
  /\ LET gb == GetBoard(db, boardCache, b)
         live == Live(db, b)
         over == Cardinality(live) - gb.cfg.max_threads
     IN IF gb.err
        THEN UNCHANGED <<db, boardCache>>
        ELSE IF over <= 0
        THEN boardCache' = gb.cache /\ UNCHANGED db
        ELSE /\ boardCache' = gb.cache
             /\ \E A \in Oldest(db, live, over) :
                  db' = [db EXCEPT !.threads =
                           [t \in DOMAIN @ |->
                              IF t \in A THEN [@[t] EXCEPT !.archived = TRUE] ELSE @[t]]]
  /\ UNCHANGED hist
  /\ UNCHANGED <<storage, fileSeq, challenges, tokenSeq, limiters, filtersCache,
                 now, req>>

(***************************************************************************)
(* The clock.  One tick is a day: every challenge timer (5 minutes) has    *)
(* fired and every bucket has refilled.                                    *)
(***************************************************************************)
Tick ==
  /\ now < MaxTime
  /\ now' = now + 1
  /\ challenges' = <<>>
  /\ limiters' = <<>>
  /\ hist' = [hist EXCEPT !.passed = <<>>]
  /\ UNCHANGED <<db, storage, fileSeq, tokenSeq, boardCache, filtersCache, req,
                 archivers>>

\* time.AfterFunc(5*time.Minute, ...) of GenerateChallenge fires for one token.
ExpireChallenge(token) ==
  /\ token \in DOMAIN challenges
  /\ challenges' = Without(challenges, {token})
  /\ UNCHANGED hist
  /\ UNCHANGED <<db, storage, fileSeq, tokenSeq, limiters, boardCache, filtersCache,
                 now, req, archivers>>

\* A call of ChallengeStore.Verify on its own.
VerifyChallenge(token, answer) ==
  /\ Count(hist.tries, token) < MaxVerify
  /\ LET vr == Verify(challenges, token, answer)
     IN /\ challenges' = vr.ch
        /\ hist' = [hist EXCEPT
                      !.tries = Bump(@, token),
                      !.trues = IF vr.ok THEN Bump(@, token) ELSE @]
  /\ UNCHANGED <<db, storage, fileSeq, tokenSeq, limiters, boardCache, filtersCache,
                 now, req, archivers>>

(***************************************************************************)
(* Moderation of bans (moderation.go:292-352) and a direct                 *)
(* DatabaseService.CreateBan, the only way a 'cidr' row is written.        *)
(***************************************************************************)
\* durationHours > 0 gives an expiry; the model counts the duration in days.
ExpiryOf(duration, t) == IF duration > 0 THEN SQLTime(t + duration) ELSE NULL

HandleBan(ipHash, cookieHash, reason, duration, f) ==
  /\ Count(db.mod_actions, "apply_ban") < MaxBanLog
  /\ LET expiresAt == ExpiryOf(duration, now)
         D1 == IF ipHash # EmptyStr
               THEN LogModAction(UpsertBan(db, ipHash, "ip", reason, expiresAt, now),
                                 "apply_ban")
               ELSE db
         D2 == IF cookieHash # EmptyStr
               THEN LogModAction(UpsertBan(D1, cookieHash, "cookie", reason, expiresAt, now),
                                 "apply_ban")
               ELSE D1
         status == IF ipHash = EmptyStr /\ cookieHash = EmptyStr THEN 400
                   ELSE IF reason = EmptyStr THEN 400
                   ELSE IF f # "none" THEN 500 ELSE 200
     IN /\ status = 400 => f = "none"
        /\ db' = IF status = 200 THEN D2 ELSE db
        /\ UNCHANGED hist
  /\ UNCHANGED <<storage, fileSeq, challenges, tokenSeq, limiters, boardCache,
                 filtersCache, now, req, archivers>>

BanCIDR(hash, reason, duration, f) ==
  /\ Count(db.mod_actions, "apply_ban") < MaxBanLog
  /\ db' = CreateBan(db, hash, "cidr", reason, "mod", ExpiryOf(duration, now), now, f)
  /\ UNCHANGED hist
  /\ UNCHANGED <<storage, fileSeq, challenges, tokenSeq, limiters, boardCache,
                 filtersCache, now, req, archivers>>

(***************************************************************************)
(* The requests clients send.                                              *)
(***************************************************************************)
Cookies == {100, 101}       \* yib_id cookie values
Boards == {"b"}
Hello == {"hello"}          \* a one-word comment

PostInput(ip, cookie, thread, content, file, token, answer, refs) ==
  [ip |-> ip, cookie |-> cookie, board_id |-> "b", thread_id |-> thread,
   name |-> {}, subject |-> {}, content |-> content, tooLong |-> FALSE,
   file |-> file, token |-> token, answer |-> answer, refs |-> refs]

\* Posts and replies, with or without a file, all answering a live
\* challenge correctly.
PostInputs ==
  {PostInput(0, c, t, Hello, f, k, challenges[k], <<>>) :
     c \in Cookies, t \in 0..1, f \in {NoFile, "X"}, k \in DOMAIN challenges}

(***************************************************************************)
(* Posting and deleting without database faults.                           *)
(***************************************************************************)
PostNext ==
  \/ challenges = <<>> /\ NewChallenge(1, 1)
  \/ \E p \in Procs, in \in PostInputs : PostGate(p, in, "none", <<1, 1>>)
  \/ \E p \in Procs : PostImage(p, "none")
  \/ \E p \in Procs : PostTx(p, "none")
  \/ \E i \in 1..MaxPosts : HandleModDelete(i, "none")
  \/ \E c \in Cookies, i \in 1..MaxPosts : HandleCookieDelete(c, i, "none")
  \/ \E c \in Cookies : MassDelete(HashIP(c), "cookie", "none")

Spec == Init /\ [][PostNext]_vars

(***************************************************************************)
(* Properties of posting and deleting.                                     *)
(***************************************************************************)

\* A committed DeletePost(postID) step, through either handler.
DeletePostCommits(postID) ==
  \/ HandleModDelete(postID, "none")
  \/ \E c \in Cookies : /\ postID \in DOMAIN db.posts
                        /\ HashIP(c) = db.posts[postID].cookie_hash
                        /\ HandleCookieDelete(c, postID, "none")

\* postID is the minimum-id post of its thread.
MinOfThread(postID) ==
  \A j \in DOMAIN db.posts :
    db.posts[j].thread_id = db.posts[postID].thread_id => j >= postID

\* C1: every thread's reply_count equals the number of committed reply
\* insertions minus the number of committed reply deletions (DeletePost or
\* DeletePostsByHash on a non-OP post), under every interleaving.
C1_ReplyCountExact ==
  \A t \in DOMAIN db.threads :
    db.threads[t].reply_count = Count(hist.ins, t) - Count(hist.del, t)

C1_Witness ==
  \E t \in DOMAIN db.threads :
    /\ Count(hist.ins, t) = 2 /\ Count(hist.del, t) = 1
    /\ db.threads[t].reply_count = 1

\* C2: every thread's image_count equals the number of its posts that carry
\* media; in particular deleting a text-only reply created through
\* HandlePost leaves it unchanged.
C2_ImageCountExact ==
  \A t \in DOMAIN db.threads :
    db.threads[t].image_count =
      Cardinality({i \in ThreadPosts(db, t) : db.posts[i].image_hash # EmptyStr})

\* C3: DeletePost on the minimum-id post of a thread removes the thread row
\* and every post of the thread in one step and reports isOp = true.
C3_DeleteOpRemovesThread ==
  [][\A i \in 1..MaxPosts :
       (i \in DOMAIN db.posts /\ MinOfThread(i) /\ DeletePostCommits(i))
       => LET t == db.posts[i].thread_id
          IN /\ t \notin DOMAIN db'.threads
             /\ \A j \in DOMAIN db'.posts : db'.posts[j].thread_id # t
             /\ \A m \in {"mod", ""} : DeletePost(db, storage, i, m, "none").isOp]_vars

C3_Witness ==
  /\ db.seqThreads = 1 /\ db.seqPosts >= 2
  /\ db.threads = <<>> /\ db.posts = <<>>
  /\ hist.del = <<>>
  /\ Count(db.mod_actions, "delete_thread") = 1

C6_MediaExists ==
  \A i \in DOMAIN db.posts :
    db.posts[i].image_path \notin {NULL, EmptyStr} => db.posts[i].image_path \in storage

FaultInputs ==
  {PostInput(0, 100, t, Hello, NoFile, k, challenges[k], r) :
     t \in 0..1, k \in DOMAIN challenges, r \in {<<>>, <<1>>, <<3>>}}

FaultNext ==
  \/ challenges = <<>> /\ NewChallenge(1, 1)
  \/ \E p \in Procs, in \in FaultInputs : PostGate(p, in, "none", <<1, 1>>)
  \/ \E p \in Procs : PostImage(p, "none")
  \/ \E p \in Procs, f \in PostFaults : PostTx(p, f)
  \/ \E i \in 1..MaxPosts, f \in DeleteFaults : HandleModDelete(i, f)
  \/ \E b \in Boards : ArchiveOldThreads(b)

SpecFault == Init /\ [][FaultNext]_vars

ChallengeNext ==
  \/ \E a, b \in 1..2 : NewChallenge(a, b)
  \/ \E k \in 0..tokenSeq, ans \in 2..4 : VerifyChallenge(k, ans)
  \/ \E k \in 1..tokenSeq : ExpireChallenge(k)

SpecChallenge == Init /\ [][ChallengeNext]_vars

\* C8: for every token at most one Verify call returns true; a Verify call
\* with any answer removes the token, and a token that was submitted once is
\* never in the store again, so a later Verify on it returns false.
C8_SingleUse ==
  /\ [](\A k \in DOMAIN hist.tries :
          Count(hist.trues, k) <= 1 /\ k \notin DOMAIN challenges)
  /\ [][\A k \in 0..tokenSeq, ans \in 2..4 :
          VerifyChallenge(k, ans)
          => /\ k \notin DOMAIN challenges'
             /\ Count(hist.tries, k) > 0 => hist'.trues = hist.trues]_vars

C8_Witness ==
  \E k, j \in DOMAIN hist.tries :
    /\ hist.tries[k] = 2 /\ Count(hist.trues, k) = 1
    /\ hist.tries[j] = 2 /\ Count(hist.trues, j) = 0

(***************************************************************************)
(* Bans: moderators ban IP and cookie hashes and a subnet, time passes,    *)
(* and clients with two addresses and two cookies try to open threads.     *)
(***************************************************************************)
Clients == {<<0, 101>>, <<3, 100>>}   \* <<address, cookie>>
BanInputs ==
  {PostInput(cl[1], cl[2], 0, Hello, NoFile, k, challenges[k], <<>>) :
     cl \in Clients, k \in DOMAIN challenges}

Poster == "r1"
Subnet == <<"cidr", 2, 1>>  \* the upper half of the address space

BanNext ==
  \/ challenges = <<>> /\ NewChallenge(1, 1)
  \/ \E in \in BanInputs : db.seqPosts < MaxBanPosts /\ PostGate(Poster, in, "none", <<1, 1>>)
  \/ PostImage(Poster, "none")
  \/ PostTx(Poster, "none")
  \/ HandleBan(HashIP(0), EmptyStr, Str(1), 1, "none")
  \/ \E d \in 0..1 : HandleBan(EmptyStr, HashIP(100), Str(2), d, "none")
  \/ BanCIDR(Subnet, Str(3), 1, "none")
  \/ Tick

SpecBan == Init /\ [][BanNext]_vars

\* The bans of the table that are active now (expires_at absent or later).
ActiveNow == {b \in db.bans : b.expires_at = NULL \/ b.expires_at[2] > now}

IpBansOf(ip) == {b \in ActiveNow : b.ban_type = "ip" /\ b.hash = HashIP(ip)}
CookieBansOf(c) == {b \in ActiveNow : b.ban_type = "cookie" /\ b.hash = HashIP(c)}
CidrBansOf(ip) ==
  {b \in ActiveNow : /\ b.ban_type = "cidr"
                     /\ ip \in 0..(2^IPBits - 1)
                     /\ \E q \in 0..(2^IPBits - 1) :
                          /\ q % (2^(IPBits - b.hash[3])) = 0
                          /\ q = b.hash[2] - (b.hash[2] % (2^(IPBits - b.hash[3])))
                          /\ ip \in q..(q + 2^(IPBits - b.hash[3]) - 1)}

\* The same row after the step, whatever happened to the rest of the table.
ActiveAfter(type, hash, like) ==
  \E n \in db'.bans :
    /\ n.ban_type = type /\ n.hash = hash
    /\ n.expires_at = NULL \/ n.expires_at[2] > now
    /\ n.reason = like.reason /\ n.expires_at = like.expires_at

\* C9: a post attempt under an active cookie ban and no active ip ban leaves
\* an active ip ban for the client's address with the cookie ban's reason and
\* expiry, leaves the cookie ban as it was and is answered 403; an attempt
\* that matches an ip or cidr ban with no active cookie ban leaves a cookie
\* ban with the reason and expiry of a matching ban.
C9_EvasionAutoBan ==
  [][\A in \in BanInputs :
       (req[Poster].pc = "idle" /\ PostGate(Poster, in, "none", <<1, 1>>))
       => /\ (CookieBansOf(in.cookie) # {} /\ IpBansOf(in.ip) = {})
             => /\ \A cb \in CookieBansOf(in.cookie) :
                     ActiveAfter("ip", HashIP(in.ip), cb) /\ cb \in db'.bans
                /\ req'[Poster].status = 403
          /\ (IpBansOf(in.ip) \cup CidrBansOf(in.ip) # {} /\ CookieBansOf(in.cookie) = {})
             => /\ \E m \in IpBansOf(in.ip) \cup CidrBansOf(in.ip) :
                     ActiveAfter("cookie", HashIP(in.cookie), m) /\ m \in db'.bans
                /\ req'[Poster].status = 403]_vars

C9_Witness ==
  \E a, b, c, d \in db.bans :
    /\ a.ban_type = "cookie" /\ a.hash = HashIP(100) /\ a.reason = Str(2)
    /\ b.ban_type = "ip" /\ b.hash = HashIP(3) /\ b.reason = Str(2)
    /\ b.expires_at = a.expires_at /\ b.created_at > a.created_at
    /\ c.ban_type = "ip" /\ c.hash = HashIP(0) /\ c.reason = Str(1)
    /\ d.ban_type = "cookie" /\ d.hash = HashIP(101) /\ d.reason = Str(1)
    /\ d.expires_at = c.expires_at
    /\ req[Poster].status = 403 /\ req[Poster].error = "banned"

\* C10: the ban check rejects a request (403, "You are banned") iff an
\* active ban matches the client's IP hash as 'ip', its cookie hash as
\* 'cookie', or is a 'cidr' ban whose subnet contains the raw address; a ban
\* whose expires_at has passed does not block.
C10_BanCheckExact ==
  [][\A in \in BanInputs :
       (req[Poster].pc = "idle" /\ PostGate(Poster, in, "none", <<1, 1>>))
       => ( (req'[Poster].status = 403 /\ req'[Poster].error = "banned")
            <=> IpBansOf(in.ip) \cup CookieBansOf(in.cookie) \cup CidrBansOf(in.ip) # {} )]_vars

\* A client banned by IP hash for a day was rejected (which banned its cookie
\* too) and, the day over, has posted from the same address with the same
\* cookie.
C10_Witness ==
  \E b, c \in db.bans : \E i \in DOMAIN db.posts :
    /\ b.ban_type = "ip" /\ b.expires_at # NULL /\ b.expires_at[2] <= now
    /\ c.ban_type = "cookie" /\ c.expires_at = b.expires_at /\ c.reason = b.reason
    /\ db.posts[i].ip_hash = b.hash /\ db.posts[i].cookie_hash = c.hash
    /\ db.threads[db.posts[i].thread_id].bump >= b.expires_at[2]
    /\ req[Poster].status = 200

(***************************************************************************)
(* Word filters.  The filters table (migration 2) is written by the        *)
(* moderation pages; InitDB loads it into the cache with ReloadFilters     *)
(* (database.go:92).  A text is a set of words and a filter's regex is one *)
(* word.                                                                   *)
(***************************************************************************)
FilterRow(id, regex, replacement, action, active) ==
  [id |-> id, regex |-> regex, replacement |-> replacement, action |-> action,
   is_active |-> active]

\* regexp.Compile fails on "[" (missing closing bracket).
CompileOk(regex) == regex # "["

\* ReloadFilters: SELECT ... FROM filters WHERE is_active = 1 ORDER BY id,
\* the rows whose regex does not compile being skipped.
RECURSIVE AbortingReloadFiltersFrom(_)
AbortingReloadFiltersFrom(rows) ==
  IF rows = {} THEN <<>>
  ELSE LET first == CHOOSE r \in rows : \A o \in rows : r.id <= o.id
       IN IF CompileOk(first.regex)
          THEN <<first>> \o AbortingReloadFiltersFrom(rows \ {first})
          ELSE <<>>
RECURSIVE ReloadFiltersFrom(_)
ReloadFiltersFrom(rows) ==
  IF rows = {} THEN <<>>
  ELSE LET first == CHOOSE r \in rows : \A o \in rows : r.id <= o.id
           rest == ReloadFiltersFrom(rows \ {first})
       IN IF CompileOk(first.regex) THEN <<first>> \o rest ELSE rest

ReloadFilters(rows) == ReloadFiltersFrom({r \in rows : r.is_active})

\* The filter tables the server is started with.
FilterTables ==
  { {FilterRow(1, "a", "b", "replace", TRUE), FilterRow(2, "b", "", "block", TRUE),
     FilterRow(3, "c", "", "ban", TRUE)},
    {FilterRow(1, "c", "", "ban", TRUE), FilterRow(2, "b", "", "block", TRUE),
     FilterRow(3, "a", "d", "replace", TRUE)},
    {FilterRow(1, "b", "", "block", FALSE), FilterRow(2, "[", "", "ban", TRUE),
     FilterRow(3, "a", "c", "replace", TRUE), FilterRow(4, "c", "", "ban", TRUE)} }

InitFilter ==
  /\ db = InitDB
  /\ storage = {}
  /\ fileSeq = 0
  /\ challenges = <<>>
  /\ tokenSeq = 0
  /\ limiters = <<>>
  /\ boardCache = <<>>
  /\ filtersCache \in {ReloadFilters(T) : T \in FilterTables}
  /\ now = 0
  /\ req = [p \in Procs |-> Idle(0)]
  /\ archivers = <<>>
  /\ hist = InitHist

Words == {Hello, {"a"}, {"b"}, {"c"}, {"b", "c"}}

\* New threads from two clients behind one address, one of them (the one
\* the moderator bans) posting plain text, the other texts the filters match
\* or not, with the token handed out last (live with its answer, or used) or with the
\* token 0 nobody was given.
FilterInputs ==
  {PostInput(0, cw[1], 0, cw[2], NoFile, k,
             IF k \in DOMAIN challenges THEN challenges[k] ELSE 0, <<>>) :
     cw \in ({100} \X {Hello}) \cup ({101} \X Words), k \in {0, tokenSeq}}

FilterNext ==
  \/ challenges = <<>> /\ NewChallenge(1, 1)
  \/ \E in \in FilterInputs : db.seqPosts <= MaxBanPosts /\ PostGate(Poster, in, "none", <<1, 1>>)
  \/ PostImage(Poster, "none")
  \/ PostTx(Poster, "none")
  \/ db.bans = {} /\ HandleBan(EmptyStr, HashIP(100), Str(2), 0, "none")

SpecFilter == InitFilter /\ [][FilterNext]_vars

\* C11: the gates run in the order ban check, rate limit, challenge,
\* filters, and the first failure ends the request: a banned client gets 403
\* and keeps its rate-limit tokens and its challenge token; a rate-limited
\* client gets 429 and keeps its challenge token; a failed challenge gets 403
\* and creates no filter auto-ban; no rejected request writes a thread, post
\* or backlink row.
C11_GateOrder ==
  [][\A in \in FilterInputs :
       PostGate(Poster, in, "none", <<1, 1>>)
       => LET p == Poster
              banned == IpBansOf(in.ip) \cup CookieBansOf(in.cookie)
                          \cup CidrBansOf(in.ip) # {}
              limited == in.ip \in DOMAIN limiters /\ limiters[in.ip] = 0
              badToken == \/ in.token \notin DOMAIN challenges
                          \/ challenges[in.token] # in.answer
          IN /\ banned => /\ req'[p].status = 403 /\ req'[p].pc = "idle"
                          /\ limiters' = limiters /\ challenges' = challenges
             /\ (~banned /\ limited)
                  => /\ req'[p].status = 429 /\ req'[p].pc = "idle"
                     /\ challenges' = challenges /\ db' = db
             /\ (~banned /\ ~limited /\ badToken)
                  => /\ req'[p].status = 403 /\ req'[p].pc = "idle"
                     /\ db' = db
             /\ req'[p].pc = "idle"
                  => /\ db'.threads = db.threads /\ db'.posts = db.posts
                     /\ db'.backlinks = db.backlinks]_vars

\* A banned client, a rate-limited client (both holding a live token) and a
\* client with a bad token whose text matches a filter have been rejected;
\* the live token is still in the store and no filter auto-ban exists.
C11_Witness ==
  /\ {"banned", "ratelimit", "challenge"} \subseteq hist.rej
  /\ \A b \in db.bans : b.reason # FilterBanReason
  /\ Cardinality(DOMAIN challenges) >= 1

(***************************************************************************)
(* Locking (moderation.go:383-410).  A moderator toggles the lock of a     *)
(* thread while clients open threads and reply.  A reply transaction that  *)
(* read the thread before another writer committed cannot write: SQLite    *)
(* fails its INSERT (the fault "post"), and it is rolled back.             *)
(***************************************************************************)
HandleToggleLock(threadID, f) ==
  /\ Count(db.mod_actions, "toggle_lock") < MaxToggles
  /\ LET D1 == IF threadID \in DOMAIN db.threads
               THEN [db EXCEPT !.threads[threadID].locked = ~@]
               ELSE db
         unlocks == /\ f = "none" /\ threadID \in DOMAIN db.threads
                    /\ db.threads[threadID].locked
     IN /\ db' = IF f = "none" THEN LogModAction(D1, "toggle_lock") ELSE db
        /\ hist' = [hist EXCEPT
                      !.lk = IF unlocks
                             THEN {p \in @ : \/ req[p].pc = "idle"
                                              \/ req[p].in.thread_id # threadID}
                             ELSE @]
  /\ UNCHANGED <<storage, fileSeq, challenges, tokenSeq, limiters, boardCache,
                 filtersCache, now, req, archivers>>

\* New threads and replies to thread 1 from one client.
LockInputs ==
  {PostInput(0, 101, t, Hello, NoFile, k, challenges[k], <<>>) :
     t \in 0..1, k \in DOMAIN challenges}

LockNext ==
  \/ challenges = <<>> /\ NewChallenge(1, 1)
  \/ \E p \in Procs, in \in LockInputs : PostGate(p, in, "none", <<1, 1>>)
  \/ \E p \in Procs : PostImage(p, "none")
  \/ \E p \in Procs, f \in {"none", "post"} : PostTx(p, f)
  \/ \E t \in 1..2, f \in {"none", "commit"} : HandleToggleLock(t, f)

SpecLock == Init /\ [][LockNext]_vars

\* C12: a reply request that began after the lock of its thread was
\* committed, the thread not unlocked since, commits no row: it is answered
\* 403 and the thread's posts, reply_count, image_count and bump are as before.
C12_LockedNoReply ==
  [][\A p \in Procs, f \in {"none", "post"} :
       (/\ p \in hist.lk
        /\ req[p].pc = "tx"
        /\ req[p].in.thread_id \in DOMAIN db.threads
        /\ PostTx(p, f))
       => /\ req'[p].status = 403
          /\ db'.posts = db.posts
          /\ db'.threads = db.threads]_vars

\* A reply that began on the locked thread 1 was answered 403 while the
\* other request was still in flight; thread 1 is locked and has only its OP.
C12_Witness ==
  \E p, q \in Procs :
    /\ p \in hist.lk /\ req[p].pc = "idle" /\ req[p].status = 403
    /\ req[p].error = ""
    /\ req[q].pc = "tx"
    /\ 1 \in DOMAIN db.threads /\ db.threads[1].locked
    /\ db.threads[1].reply_count = 0
    /\ Count(db.mod_actions, "toggle_lock") = 1

(***************************************************************************)
(* Archival.  The board was edited (HandleEditBoard) to hold at most       *)
(* SmallMaxThreads threads; clients open threads and the detached tasks    *)
(* run, after or before the commit of the request that started them.       *)
(***************************************************************************)
InitArchive ==
  /\ db = [InitDB EXCEPT !.boards["b"].max_threads = SmallMaxThreads]
  /\ storage = {}
  /\ fileSeq = 0
  /\ challenges = <<>>
  /\ tokenSeq = 0
  /\ limiters = <<>>
  /\ boardCache = <<>>
  /\ filtersCache = <<>>
  /\ now = 0
  /\ req = [p \in Procs |-> Idle(0)]
  /\ archivers = <<>>
  /\ hist = InitHist

ArchiveInputs ==
  {PostInput(0, 101, 0, Hello, NoFile, k, challenges[k], <<>>) : k \in DOMAIN challenges}

ArchiveNext ==
  \/ challenges = <<>> /\ NewChallenge(1, 1)
  \/ \E p \in Procs, in \in ArchiveInputs : PostGate(p, in, "none", <<1, 1>>)
  \/ \E p \in Procs : PostImage(p, "none")
  \/ \E p \in Procs : PostTx(p, "none")
  \/ \E p \in Procs : PostTxArchiverFirst(p, "none")
  \/ \E b \in Boards : ArchiveOldThreads(b)
  \/ Tick

SpecArchive == InitArchive /\ [][ArchiveNext]_vars

\* C13: when no request is in flight and every archival task has finished,
\* each board holds at most max_threads threads that are neither archived
\* nor sticky.
C13_ArchiveBound ==
  (/\ \A p \in Procs : req[p].pc = "idle"
   /\ \A b \in DOMAIN archivers : archivers[b] = 0)
  => \A b \in DOMAIN db.boards :
       Cardinality(Live(db, b)) <= db.boards[b].max_threads

(***************************************************************************)
(* Backlinks: clients open threads and reply with markers, some written    *)
(* twice or in two spellings, some naming no post; moderators delete.      *)
(***************************************************************************)
Markers == {<<>>, <<1, 1>>, <<1, 11, 2>>, <<3, 0>>}

LinkInputs ==
  {PostInput(0, 101, t, Hello, NoFile, k, challenges[k], refs) :
     t \in 0..1, k \in DOMAIN challenges, refs \in Markers}

LinkNext ==
  \/ challenges = <<>> /\ NewChallenge(1, 1)
  \/ \E p \in Procs, in \in LinkInputs : PostGate(p, in, "none", <<1, 1>>)
  \/ \E p \in Procs : PostImage(p, "none")
  \/ \E p \in Procs : PostTx(p, "none")
  \/ \E i \in 1..MaxPosts : HandleModDelete(i, "none")

SpecLinks == Init /\ [][LinkNext]_vars

\* C14: a post that commits with the marker >>N written once or several
\* times, N > 0 a row of posts, adds exactly the row (new post, N) to
\* backlinks, whatever rows exist and however often or in whichever spelling
\* N is written; no insert of such an edge is an error, and the other rows
\* of backlinks are as before.
C14_OneEdgePerTarget ==
  [][\A p \in Procs :
       (/\ req[p].pc = "tx"
        /\ PostTx(p, "none")
        /\ db'.seqPosts = db.seqPosts + 1)
       => LET pid == db'.seqPosts
              refs == req[p].in.refs
              named == {n \in 1..9 : \E k \in 1..Len(refs) : refs[k] % 10 = n}
              targets == {n \in named : n \in DOMAIN db'.posts}
          IN /\ {e \in db'.backlinks : e[1] = pid} = {<<pid, n>> : n \in targets}
             /\ {e \in db'.backlinks : e[1] # pid} = db.backlinks
             /\ named = targets => hist'.warn = hist.warn]_vars

\* Post 2 was committed with >>1 written twice ("1" and "01") and >>2: it
\* has the two edges (2,1) and (2,2), and nothing was logged.
C14_Witness ==
  /\ 2 \in DOMAIN db.posts
  /\ {e \in db.backlinks : e[1] = 2} = {<<2, 1>>, <<2, 2>>}
  /\ hist.warn = 0

(***************************************************************************)
(* Banning again.  Moderators ban an IP hash, a cookie hash or both, with  *)
(* two reasons, for a day or for good; a subnet is banned through          *)
(* CreateBan; time passes.                                                 *)
(***************************************************************************)
RebanNext ==
  \/ \E ih \in {EmptyStr, HashIP(0)}, ch \in {EmptyStr, HashIP(100)},
        r \in {EmptyStr, Str(1), Str(2)}, d \in 0..1, f \in {"none", "commit"} :
       HandleBan(ih, ch, r, d, f)
  \/ \E r \in {Str(1), Str(2)}, d \in 0..1, f \in {"none", "commit"} :
       BanCIDR(Subnet, r, d, f)
  \/ Tick

SpecReban == Init /\ [][RebanNext]_vars

\* The row of bans with this key, if it is the only one.
OnlyBan(D, hash, type, reason, expiresAt) ==
  \E b \in D.bans :
    /\ b.hash = hash /\ b.ban_type = type
    /\ b.reason = reason /\ b.expires_at = expiresAt
    /\ \A o \in D.bans : (o.hash = hash /\ o.ban_type = type) => o = b

\* C15: bans never holds two rows with the same (hash, ban_type); a ban
\* applied by HandleBan or CreateBan to a key that has a row succeeds and
\* leaves that one row with the new reason and the new expires_at, and a ban
\* applied to a new key adds one row.
C15_BanUpsert ==
  /\ [](\A a, b \in db.bans : (a.hash = b.hash /\ a.ban_type = b.ban_type) => a = b)
  /\ [][\A ih \in {EmptyStr, HashIP(0)}, ch \in {EmptyStr, HashIP(100)},
           r \in {Str(1), Str(2)}, d \in 0..1 :
          (HandleBan(ih, ch, r, d, "none") /\ <<ih, ch>> # <<EmptyStr, EmptyStr>>)
          => /\ ih # EmptyStr => OnlyBan(db', ih, "ip", r, ExpiryOf(d, now))
             /\ ch # EmptyStr => OnlyBan(db', ch, "cookie", r, ExpiryOf(d, now))
             /\ {<<b.hash, b.ban_type>> : b \in db'.bans}
                  = {<<b.hash, b.ban_type>> : b \in db.bans}
                      \cup (IF ih # EmptyStr THEN {<<ih, "ip">>} ELSE {})
                      \cup (IF ch # EmptyStr THEN {<<ch, "cookie">>} ELSE {})]_vars
  /\ [][\A r \in {Str(1), Str(2)}, d \in 0..1 :
          BanCIDR(Subnet, r, d, "none")
          => /\ OnlyBan(db', Subnet, "cidr", r, ExpiryOf(d, now))
             /\ {<<b.hash, b.ban_type>> : b \in db'.bans}
                  = {<<b.hash, b.ban_type>> : b \in db.bans} \cup {<<Subnet, "cidr">>}]_vars

\* An IP hash banned for good on day 0 with one reason was banned again on
\* day 1 with the other reason and an expiry: one row, made on day 0.
C15_Witness ==
  /\ now = 1
  /\ Cardinality(db.bans) = 1
  /\ \E b \in db.bans :
       /\ b.ban_type = "ip" /\ b.hash = HashIP(0) /\ b.created_at = 0
       /\ b.reason = Str(2) /\ b.expires_at = SQLTime(2)
  /\ Count(db.mod_actions, "apply_ban") = 2

\* The text the i-th cached filter is tested on: the submitted text after
\* the replacements of the matching 'replace' filters before it.
RECURSIVE TextAt(_, _, _)
TextAt(cache, text, i) ==
  IF i <= 1 THEN text
  ELSE LET prev == TextAt(cache, text, i - 1)
           f == cache[i - 1]
       IN IF f.action = "replace" /\ f.regex \in prev
          THEN (prev \ {f.regex}) \cup {f.replacement}
          ELSE prev

\* The cached filters with action 'block' or 'ban' that match the text they
\* are tested on.
Stops(cache, text) ==
  {i \in 1..Len(cache) : /\ cache[i].action \in {"block", "ban"}
                         /\ cache[i].regex \in TextAt(cache, text, i)}

\* C16: on a request that passed the ban check, the rate limit and the
\* challenge, the filters are tested in ascending order, each on the text as
\* rewritten by the matching 'replace' filters before it; when the first
\* matching 'block' or 'ban' filter is a 'block' the post is rejected and
\* nothing is written; when it is a 'ban' the post is rejected with 403, no
\* thread, post or backlink is written and the poster's IP hash has an
\* active 'ip' ban with the fixed reason that expires 24 hours later; when
\* there is none the request goes on with the rewritten text.
C16_FilterOrder ==
  [][\A in \in FilterInputs :
       (/\ PostGate(Poster, in, "none", <<1, 1>>)
        /\ IpBansOf(in.ip) \cup CookieBansOf(in.cookie) \cup CidrBansOf(in.ip) = {}
        /\ ~(in.ip \in DOMAIN limiters /\ limiters[in.ip] = 0)
        /\ in.token \in DOMAIN challenges /\ challenges[in.token] = in.answer)
       => LET stops == Stops(filtersCache, in.content)
              first == CHOOSE i \in stops : \A o \in stops : i <= o
              r == req'[Poster]
          IN IF stops = {}
             THEN /\ r.pc = "image"
                  /\ r.in.content = TextAt(filtersCache, in.content, Len(filtersCache) + 1)
                  /\ db' = db
             ELSE IF filtersCache[first].action = "block"
             THEN r.pc = "idle" /\ r.status = 400 /\ db' = db /\ storage' = storage
             ELSE /\ r.pc = "idle" /\ r.status = 403
                  /\ db'.threads = db.threads /\ db'.posts = db.posts
                  /\ db'.backlinks = db.backlinks /\ storage' = storage
                  /\ OnlyBan(db', HashIP(in.ip), "ip", FilterBanReason,
                             SQLTime(now + FilterBanDays))
                  /\ FilterBanDays > 0]_vars

\* A text with the word "a" was posted as "d" (the replace filter), a text
\* was blocked, and a text triggered the ban filter: the poster's IP hash is
\* banned for a day with the fixed reason.
C16_Witness ==
  /\ \E i \in DOMAIN db.posts : db.posts[i].content = {"d"}
  /\ {"filterblock", "filterban"} \subseteq hist.rej
  /\ \E b \in db.bans :
       /\ b.ban_type = "ip" /\ b.hash = HashIP(0) /\ b.reason = FilterBanReason
       /\ b.expires_at = SQLTime(now + 1)

(***************************************************************************)
(* HandleReport (actions.go:337-367) and the moderation of reported posts. *)
(***************************************************************************)
HandleReport(ip, cookie, postID, reason) ==
  /\ db.seqReports < MaxReports
  /\ \E ban \in GetBanDetails(db.bans, ip, HashIP(ip), HashIP(cookie), now) :
       IF ban.found \/ postID = 0 \/ reason = ""
       THEN UNCHANGED db        \* 403 or 400
       ELSE db' = [db EXCEPT
                     !.reports = @ \cup {[id |-> db.seqReports + 1, post_id |-> postID]},
                     !.seqReports = @ + 1]
  /\ UNCHANGED hist
  /\ UNCHANGED <<storage, fileSeq, challenges, tokenSeq, limiters, boardCache,
                 filtersCache, now, req, archivers>>

\* One client goroutine posts text threads and replies under two cookies;
\* posts are reported and then deleted one by one or by cookie hash, with
\* database faults.
ModerateInputs ==
  {PostInput(0, c, t, Hello, NoFile, k, challenges[k], <<>>) :
     c \in Cookies, t \in 0..1, k \in DOMAIN challenges}

ModerateNext ==
  \/ challenges = <<>> /\ NewChallenge(1, 1)
  \/ \E in \in ModerateInputs : PostGate(Poster, in, "none", <<1, 1>>)
  \/ PostImage(Poster, "none")
  \/ PostTx(Poster, "none")
  \/ \E i \in 0..MaxPosts, r \in {"", "spam"} : HandleReport(0, 101, i, r)
  \/ \E i \in 1..MaxPosts, f \in DeleteFaults : HandleModDelete(i, f)
  \/ /\ Count(db.mod_actions, "mass_delete") < MaxMassLog
     /\ \E c \in Cookies, f \in MassFaults : MassDelete(HashIP(c), "cookie", f)

SpecModerate == Init /\ [][ModerateNext]_vars

\* C17: DeletePostsByHash is one all-or-nothing batch: when it returns
\* success no post with that hash remains, every thread of a matching OP is
\* gone, every matching reply has decremented its thread's reply_count and
\* exactly one "mass_delete" audit row was committed with it; when a
\* per-post step, the audit insert or the commit fails, nothing in the
\* database is changed.
C17_MassDeleteAtomic ==
  [][\A c \in Cookies, f \in MassFaults :
       LET todo == PostsByHash(db, HashIP(c), "cookie")
           out == DeletePostsByHash(db, storage, HashIP(c), "cookie", f)
       IN (todo # {} /\ MassDelete(HashIP(c), "cookie", f)) =>
            /\ f # "none" => db' = db
            /\ ~out.err =>
                 /\ PostsByHash(db', HashIP(c), "cookie") = {}
                 /\ \A i \in todo :
                      IsOp(db, i) => db.posts[i].thread_id \notin DOMAIN db'.threads
                 /\ \A t \in DOMAIN db'.threads :
                      db'.threads[t].reply_count =
                        db.threads[t].reply_count
                          - Cardinality(todo \cap ThreadPosts(db, t))
                 /\ Count(db'.mod_actions, "mass_delete")
                      = Count(db.mod_actions, "mass_delete") + 1]_vars

\* The posts a step removes.
Removed == DOMAIN db.posts \ DOMAIN db'.posts

\* C18: after DeletePost or DeletePostsByHash commits, no report row refers
\* to a post the operation removed, the replies removed by the cascade of
\* an OP deletion included.
C18_NoReportOfRemoved ==
  [][(\/ \E i \in 1..MaxPosts : HandleModDelete(i, "none")
      \/ \E c \in Cookies : MassDelete(HashIP(c), "cookie", "none"))
       => \A r \in db'.reports : r.post_id \notin Removed]_vars

(***************************************************************************)
(* Requests to /post that HandlePost rejects: unknown board, field too     *)
(* long, unsupported, oversize or empty file, blank post, image required,  *)
(* thread not found, thread locked.                                        *)
(***************************************************************************)
InitReject ==
  /\ \E ir \in BOOLEAN : db = [InitDB EXCEPT !.boards["b"].image_required = ir]
  /\ storage = {}
  /\ fileSeq = 0
  /\ challenges = <<>>
  /\ tokenSeq = 0
  /\ limiters = <<>>
  /\ boardCache = <<>>
  /\ filtersCache = <<>>
  /\ now = 0
  /\ req = [p \in Procs |-> Idle(0)]
  /\ archivers = <<>>
  /\ hist = InitHist

RejectInputs ==
  LET ok(t, c, f, k) == PostInput(0, 101, t, c, f, k, challenges[k], <<>>)
  IN UNION {
       {ok(t, Hello, f, k) : t \in 0..2, f \in {NoFile, "X"}}
       \cup {ok(0, {}, f, k) : f \in {NoFile, "X", "BIG", "EMPTY", "T"}}
       \cup {[ok(0, Hello, "X", k) EXCEPT !.board_id = "zz"],
             [ok(0, Hello, "X", k) EXCEPT !.tooLong = TRUE]}
       : k \in DOMAIN challenges}

RejectNext ==
  \/ challenges = <<>> /\ NewChallenge(1, 1)
  \/ \E in \in RejectInputs : PostGate(Poster, in, "none", <<1, 1>>)
  \/ PostImage(Poster, "none")
  \/ PostTx(Poster, "none")
  \/ HandleToggleLock(1, "none")
  \/ Tick

SpecReject == InitReject /\ [][RejectNext]_vars

\* The step that answers request p with a validation error.
ValidationError(p) ==
  /\ req'[p].pc = "idle"
  /\ \/ req[p].pc = "idle" /\ req'[p] # req[p] /\ req'[p].error \in {"board", "length"}
     \/ req[p].pc \in {"image", "tx"} /\ req'[p].status \in {400, 403}

\* C19: a request to /post that is rejected with a validation error (field
\* too long, missing board, thread not found, thread locked, image required,
\* blank post, unsupported or oversize file) writes or changes no database
\* row and adds no object to storage, with or without a valid file.
C19_RejectionNoEffect ==
  [][\A p \in Procs :
       ValidationError(p) => db' = db /\ storage' = storage /\ p \notin hist.saved]_vars

(***************************************************************************)
(* The stored files of deleted posts.                                      *)
(***************************************************************************)
\* The stored paths a post row cites.
StoredPaths(row) ==
  (IF row.image_path \notin {NULL, EmptyStr} THEN {row.image_path} ELSE {})
  \cup (IF row.thumbnail_path # NULL THEN {row.thumbnail_path} ELSE {})

\* C20: when a committed DeletePost removes the last post that cites a
\* content hash (a reply, or a whole thread through its OP), the main asset
\* and the thumbnail of that post are no longer in storage; when another
\* post still cites the hash, none of its files is deleted.
C20_LastCitation ==
  [][\A i \in 1..MaxPosts :
       (i \in DOMAIN db.posts /\ DeletePostCommits(i)) =>
         \A r \in Removed :
           IF CountHash(db', db.posts[r].image_hash) = 0
           THEN StoredPaths(db.posts[r]) \cap storage' = {}
           ELSE StoredPaths(db.posts[r]) \cap storage \subseteq storage']_vars

\* A stored asset and its thumbnail are gone after deletions through
\* DeletePost alone, while a post without a file remains.
C20_Witness ==
  /\ fileSeq >= 1
  /\ storage = {}
  /\ Count(db.mod_actions, "mass_delete") = 0
  /\ Count(db.mod_actions, "delete_reply") + Count(db.mod_actions, "delete_thread") >= 1
  /\ db.posts # <<>>

(***************************************************************************)
(* Auto-bans whose CreateBan fails (actions.go:61-74, 120-127).            *)
(***************************************************************************)
\* The banned client posting plain text and the other one a text the "ban"
\* filters match or not, both answering the live challenge.
AutoBanInputs ==
  {PostInput(0, cw[1], 0, cw[2], NoFile, k, challenges[k], <<>>) :
     cw \in {<<100, Hello>>, <<101, Hello>>, <<101, {"c"}>>}, k \in DOMAIN challenges}

AutoBanNext ==
  \/ challenges = <<>> /\ NewChallenge(1, 1)
  \/ \E in \in AutoBanInputs, cf \in {"none", "busy"} :
       db.seqPosts <= MaxBanPosts /\ PostGate(Poster, in, cf, <<1, 1>>)
  \/ PostImage(Poster, "none")
  \/ PostTx(Poster, "none")
  \/ db.bans = {} /\ HandleBan(EmptyStr, HashIP(100), Str(2), 0, "none")

SpecAutoBan == InitFilter /\ [][AutoBanNext]_vars

\* The database D with the bans table, its sequence and the audit log of db.
SameButBans(D) ==
  [D EXCEPT !.bans = db.bans, !.seqBans = db.seqBans, !.mod_actions = db.mod_actions]

\* C21: a HandlePost request that is rejected at the ban check or by a
\* "ban" filter gets the same 403 answer whether its CreateBan commits or
\* fails; no post is written either way, the gates before it have acted the
\* same, and when CreateBan fails the database is exactly as before.
C21_AutoBanFailure ==
  [][\A in \in AutoBanInputs, cf \in {"none", "busy"} :
       (PostGate(Poster, in, cf, <<1, 1>>)
          /\ req'[Poster].error \in {"banned", "filterban"}) =>
         /\ req'[Poster] = [Idle(403) EXCEPT !.error = req'[Poster].error]
         /\ SameButBans(db') = db
         /\ cf = "busy" => db' = db
         /\ UNCHANGED <<storage, fileSeq>>
         /\ IF req'[Poster].error = "banned"
            THEN UNCHANGED <<limiters, challenges, tokenSeq>>
            ELSE /\ limiters' = Allow(limiters, in.ip).lim
                 /\ challenges' = Verify(challenges, in.token, in.answer).ch
                 /\ tokenSeq' = tokenSeq]_vars

\* A request was rejected by a "ban" filter and by the ban check of a banned
\* cookie while no "ip" ban row exists: both CreateBan calls failed.
C21_Witness ==
  /\ req[Poster].error \in {"banned", "filterban"}
  /\ \A b \in db.bans : b.ban_type = "cookie"
  /\ "filterban" \in hist.rej
  /\ db.bans # {}
  /\ req[Poster].error = "banned"
  /\ db.posts = <<>>

\* C22: HandleCookieDelete deletes the post only when the hash of the
\* requester's cookie equals the post's cookie_hash; any other requester is
\* answered 403 and the database and the stored files are unchanged.
C22_OwnerOnlyDelete ==
  [][\A c \in Cookies, i \in 1..MaxPosts :
       HandleCookieDelete(c, i, "none") =>
         IF HashIP(c) = db.posts[i].cookie_hash
         THEN CookieDeleteStatus(db, c, i, "none") = 200 /\ i \notin DOMAIN db'.posts
         ELSE /\ CookieDeleteStatus(db, c, i, "none") = 403
              /\ db' = db /\ storage' = storage]_vars

\* The posts of cookie 100 were deleted through /delete (no audit row is
\* written for it) while a post of cookie 101 is still there.
C22_Witness ==
  /\ hist.del # <<>>
  /\ db.mod_actions = <<>>
  /\ \E i \in DOMAIN db.posts : db.posts[i].cookie_hash = HashIP(101)
  /\ \A i \in DOMAIN db.posts : db.posts[i].cookie_hash # HashIP(100)
  /\ db.seqPosts >= 2

(***************************************************************************)
(* The rate limit of /post: two clients at two addresses, one of them      *)
(* banned by a moderator for a while.                                      *)
(***************************************************************************)
RateInputs ==
  {PostInput(cl[1], cl[2], 0, Hello, NoFile, k,
             IF k \in DOMAIN challenges THEN challenges[k] ELSE 0, <<>>) :
     cl \in {<<0, 100>>, <<1, 101>>}, k \in {0, tokenSeq}}

RateNext ==
  \/ challenges = <<>> /\ tokenSeq = 0 /\ NewChallenge(1, 1)
  \/ \E in \in RateInputs : db.seqPosts <= MaxBanPosts /\ PostGate(Poster, in, "none", <<1, 1>>)
  \/ PostImage(Poster, "none")
  \/ PostTx(Poster, "none")
  \/ db.bans = {} /\ HandleBan(EmptyStr, HashIP(100), Str(2), 1, "none")
  \/ Tick

SpecRate == Init /\ [][RateNext]_vars

\* C23: between two refills at most Burst requests of one address pass the
\* rate limit; the next one is answered 429 and writes nothing; a request
\* the ban check rejects takes no token; the buckets of the other addresses
\* are left as they are.
C23_RateLimit ==
  /\ [](\A ip \in DOMAIN hist.passed : hist.passed[ip] <= Burst)
  /\ [][\A in \in RateInputs :
          PostGate(Poster, in, "none", <<1, 1>>) =>
            /\ \A o \in DOMAIN limiters' \ {in.ip} :
                 o \in DOMAIN limiters /\ limiters'[o] = limiters[o]
            /\ req'[Poster].error = "banned" => limiters' = limiters
            /\ (req'[Poster].error # "banned" /\ Count(hist.passed, in.ip) = Burst) =>
                 /\ req'[Poster].status = 429
                 /\ db' = db /\ storage' = storage /\ challenges' = challenges
            /\ (req'[Poster].error # "banned" /\ Count(hist.passed, in.ip) < Burst) =>
                 /\ req'[Poster].status # 429
                 /\ Count(hist'.passed, in.ip) = Count(hist.passed, in.ip) + 1]_vars

\* Address 0 has used its Burst tokens and its next request got 429, while
\* address 1 still has tokens.
C23_Witness ==
  /\ Count(hist.passed, 0) = Burst
  /\ req[Poster].status = 429
  /\ Count(hist.passed, 1) \in 1..(Burst - 1)
  /\ 1 \in DOMAIN limiters /\ limiters[1] = Burst - hist.passed[1]

(***************************************************************************)
(* Bumping: replies under several names to threads of a board whose        *)
(* bump_limit is SmallBumpLimit, while time passes.                        *)
(***************************************************************************)
InitBump ==
  /\ db = [InitDB EXCEPT !.boards["b"].bump_limit = SmallBumpLimit]
  /\ storage = {}
  /\ fileSeq = 0
  /\ challenges = <<>>
  /\ tokenSeq = 0
  /\ limiters = <<>>
  /\ boardCache = <<>>
  /\ filtersCache = <<>>
  /\ now = 0
  /\ req = [p \in Procs |-> Idle(0)]
  /\ archivers = <<>>
  /\ hist = InitHist

Names == {{}, {"sage"}, {"SAGE"}, {"#sage"}, {"message"}, {"anon", "#sage"}}

BumpInputs ==
  {[PostInput(0, 101, t, Hello, NoFile, k, challenges[k], <<>>) EXCEPT !.name = n] :
     t \in 0..1, n \in Names, k \in DOMAIN challenges}

BumpNext ==
  \/ challenges = <<>> /\ NewChallenge(1, 1)
  \/ \E in \in BumpInputs : PostGate(Poster, in, "none", <<1, 1>>)
  \/ PostImage(Poster, "none")
  \/ \E f \in {"none", "update"} : PostTx(Poster, f)
  \/ Tick

SpecBump == InitBump /\ [][BumpNext]_vars

\* The step that commits the reply of request p.
ReplyCommits(p) ==
  /\ req[p].pc = "tx" /\ req[p].in.thread_id # 0
  /\ PostTx(p, "none") /\ req'[p].status = 200

\* The thread row a committed reply of p leaves, bumped or not.
AfterReply(p, bumped) ==
  LET t == req[p].in.thread_id
  IN /\ db.seqPosts + 1 \in DOMAIN db'.posts
     /\ db'.posts[db.seqPosts + 1].thread_id = t
     /\ db'.threads[t].reply_count = db.threads[t].reply_count + 1
     /\ db'.threads[t].bump = IF bumped THEN now ELSE db.threads[t].bump

\* C24 (as stated): a committed reply sets bump to the current time iff the
\* display name does not contain 'sage' and the reply_count read in the
\* transaction is below the board's bump_limit; otherwise bump is unchanged
\* and the reply is inserted and counted all the same.
C24_BumpIffNoSage ==
  [][\A p \in Procs :
       ReplyCommits(p) =>
         AfterReply(p, /\ ~ContainsSage(DisplayName(req[p].in.name))
                       /\ db.threads[req[p].in.thread_id].reply_count
                            < db.boards["b"].bump_limit)]_vars

\* C24 (amended): the same with 'sage' looked for in the lower-cased display
\* name, so that SAGE or Sage in the name also leave bump unchanged.
C24_BumpRule ==
  [][\A p \in Procs :
       ReplyCommits(p) =>
         AfterReply(p, /\ ~ContainsSage({ToLower(w) : w \in DisplayName(req[p].in.name)})
                       /\ db.threads[req[p].in.thread_id].reply_count
                            < db.boards["b"].bump_limit)]_vars

\* Thread 1 is older than thread 2, which was opened before the clock
\* ticked: a reply has bumped thread 1 since, and a later reply, past the
\* bump limit, was counted.
C24_Witness ==
  /\ now = 1
  /\ {1, 2} \subseteq DOMAIN db.threads
  /\ db.threads[2].bump = 0
  /\ db.threads[1].bump = 1
  /\ db.threads[1].reply_count = 1

(***************************************************************************)
(* Deletions that fail, of posts with stored files.                        *)
(***************************************************************************)
DeleteFaultNext ==
  \/ challenges = <<>> /\ NewChallenge(1, 1)
  \/ \E t \in 0..1, f \in {NoFile, "X", "Y"}, k \in DOMAIN challenges :
       PostGate(Poster, PostInput(0, 101, t, Hello, f, k, challenges[k], <<>>),
                "none", <<1, 1>>)
  \/ PostImage(Poster, "none")
  \/ PostTx(Poster, "none")
  \/ \E i \in 1..MaxPosts, f \in DeleteFaults : HandleModDelete(i, f)
  \/ /\ Count(db.mod_actions, "mass_delete") < MaxMassLog
     /\ \E f \in MassFaults : MassDelete(HashIP(101), "cookie", f)

SpecDeleteFault == Init /\ [][DeleteFaultNext]_vars

\* C25: DeletePost and DeletePostsByHash delete stored files only after
\* their transaction has committed: when a statement, the audit insert or
\* the commit fails, no stored file has been deleted and every file a post
\* row cites is still in storage.
C25_FilesAfterCommit ==
  [][(\/ \E i \in 1..MaxPosts, f \in DeleteFaults \ {"none"} : HandleModDelete(i, f)
      \/ \E f \in {"log", "commit"} : MassDelete(HashIP(101), "cookie", f))
       => /\ storage' = storage
          /\ \A i \in DOMAIN db'.posts : StoredPaths(db'.posts[i]) \subseteq storage']_vars

\* C26: storage holds at most one main asset per content hash at every
\* state, whatever the interleaving of the uploads, and an upload whose post
\* is not committed leaves no object behind.  Every upload of PostInputs has
\* the same bytes, hence one hash: the main assets in storage are at most
\* one, and when no request is in flight a post row cites it.
C26_StoredOncePerHash ==
  LET mains == {path \in storage : path[1] = "main"}
  IN /\ Cardinality(mains) <= 1
     /\ (\A p \in Procs : req[p].pc = "idle") =>
          \A path \in mains : \E i \in DOMAIN db.posts : db.posts[i].image_path = path

(***************************************************************************)
(* The board cache under edits.  GetBoard (database.go:166-191) reads the  *)
(* cache under RLock, on a miss reads the boards row with no lock held,    *)
(* and then stores it under Lock; HandleEditBoard (moderation.go:121-170)  *)
(* commits its UPDATE and then calls ClearBoardCache.  A goroutine between *)
(* two of these steps has pc "store" (row read, not yet stored) or "clear" *)
(* (edit committed, cache not yet cleared).                                *)
(***************************************************************************)
GetBoardRead(p, b) ==
  /\ req[p].pc = "idle"
  /\ b \notin DOMAIN boardCache
  /\ b \in DOMAIN db.boards
  /\ req' = [req EXCEPT ![p] = [Idle(0) EXCEPT !.pc = "store", !.cfg = db.boards[b]]]
  /\ UNCHANGED hist
  /\ UNCHANGED <<db, storage, fileSeq, challenges, tokenSeq, limiters, boardCache,
                 filtersCache, now, archivers>>

GetBoardStore(p, b) ==
  /\ req[p].pc = "store"
  /\ boardCache' = With(boardCache, b, req[p].cfg)
  /\ req' = [req EXCEPT ![p] = Idle(0)]
  /\ UNCHANGED hist
  /\ UNCHANGED <<db, storage, fileSeq, challenges, tokenSeq, limiters, filtersCache,
                 now, archivers>>

HandleEditBoard(p, b, maxThreads, bumpLimit, imageRequired, f) ==
  /\ req[p].pc = "idle"
  /\ Count(db.mod_actions, "edit_board") < MaxEdits
  /\ IF f = "none"
     THEN /\ db' = LogModAction(
                     [db EXCEPT !.boards[b] = [max_threads |-> maxThreads,
                                               bump_limit |-> bumpLimit,
                                               image_required |-> imageRequired]],
                     "edit_board")
          /\ req' = [req EXCEPT ![p] = [Idle(0) EXCEPT !.pc = "clear"]]
     ELSE /\ req' = [req EXCEPT ![p] = Idle(500)]
          /\ UNCHANGED db
  /\ UNCHANGED hist
  /\ UNCHANGED <<storage, fileSeq, challenges, tokenSeq, limiters, boardCache,
                 filtersCache, now, archivers>>

ClearBoardCache(p, b) ==
  /\ req[p].pc = "clear"
  /\ boardCache' = Without(boardCache, {b})
  /\ req' = [req EXCEPT ![p] = Idle(303)]
  /\ UNCHANGED hist
  /\ UNCHANGED <<db, storage, fileSeq, challenges, tokenSeq, limiters, filtersCache,
                 now, archivers>>

CacheNext ==
  \/ \E p \in Procs : GetBoardRead(p, "b")
  \/ \E p \in Procs : GetBoardStore(p, "b")
  \/ \E p \in Procs, mt \in 1..2, bl \in 1..2, ir \in BOOLEAN, f \in {"none", "commit"} :
       HandleEditBoard(p, "b", mt, bl, ir, f)
  \/ \E p \in Procs : ClearBoardCache(p, "b")

SpecCache == Init /\ [][CacheNext]_vars

\* C27: once the GetBoard calls and the board edits (commit, then
\* ClearBoardCache) in flight have finished, every entry of the board cache
\* equals the committed boards row.
C27_CacheFresh ==
  (\A p \in Procs : req[p].pc = "idle") =>
     \A b \in DOMAIN boardCache : boardCache[b] = db.boards[b]

(***************************************************************************)
(* The filter cache under reloads.  ApplyFilters holds filtersMu.RLock     *)
(* from its first line to its return (database.go:928-929): a goroutine    *)
(* inside it has pc "apply" and in.snap is the slice its range statement   *)
(* evaluated.  ReloadFilters queries and compiles with no lock held (pc    *)
(* "swap" once it has built newCache) and assigns the cache under          *)
(* filtersMu.Lock (database.go:918-920), which waits for the readers.      *)
(***************************************************************************)
ApplyBegin(p, text) ==
  /\ req[p].pc = "idle"
  /\ req' = [req EXCEPT ![p] =
               [Idle(0) EXCEPT !.pc = "apply",
                               !.in = [ip |-> 0, cookie |-> 0, content |-> text,
                                       snap |-> filtersCache]]]
  /\ UNCHANGED hist
  /\ UNCHANGED <<db, storage, fileSeq, challenges, tokenSeq, limiters, boardCache,
                 filtersCache, now, archivers>>

ApplyEnd(p) ==
  /\ req[p].pc = "apply"
  /\ LET res == ApplyFilters(req[p].in.snap, req[p].in.content)
     IN req' = [req EXCEPT ![p] =
                  [Idle(0) EXCEPT !.error = res.err,
                                  !.in = [ip |-> 0, cookie |-> 0, content |-> res.text]]]
  /\ UNCHANGED hist
  /\ UNCHANGED <<db, storage, fileSeq, challenges, tokenSeq, limiters, boardCache,
                 filtersCache, now, archivers>>

ReloadQuery(p, rows) ==
  /\ req[p].pc = "idle"
  /\ req' = [req EXCEPT ![p] =
               [Idle(0) EXCEPT !.pc = "swap",
                               !.in = [ip |-> 0, cookie |-> 0, rows |-> rows,
                                       newCache |-> ReloadFilters(rows)]]]
  /\ UNCHANGED hist
  /\ UNCHANGED <<db, storage, fileSeq, challenges, tokenSeq, limiters, boardCache,
                 filtersCache, now, archivers>>

ReloadSwap(p) ==
  /\ req[p].pc = "swap"
  /\ \A q \in Procs : req[q].pc # "apply"      \* filtersMu.Lock()
  /\ filtersCache' = req[p].in.newCache
  /\ req' = [req EXCEPT ![p] = Idle(0)]
  /\ UNCHANGED hist
  /\ UNCHANGED <<db, storage, fileSeq, challenges, tokenSeq, limiters, boardCache,
                 now, archivers>>

ReloadNext ==
  \/ \E p \in Procs, text \in Words : ApplyBegin(p, text)
  \/ \E p \in Procs : ApplyEnd(p)
  \/ \E p \in Procs, T \in FilterTables : ReloadQuery(p, T)
  \/ \E p \in Procs : ReloadSwap(p)

SpecReload == InitFilter /\ [][ReloadNext]_vars

\* C28: ReloadFilters replaces the cache in one assignment with exactly the
\* active rows whose regex compiles, in ascending id order, a row that does
\* not compile being left out alone; and an ApplyFilters call evaluates one
\* complete set: the cache does not change while it runs, and its result is
\* that of the whole current cache applied to its input.
C28_ReloadSwap ==
  /\ [][\A p \in Procs :
          ReloadSwap(p) =>
            LET good == {r \in req[p].in.rows : r.is_active /\ CompileOk(r.regex)}
                c == filtersCache'
            IN /\ Len(c) = Cardinality(good)
               /\ {c[i] : i \in 1..Len(c)} = good
               /\ \A i, j \in 1..Len(c) : i < j => c[i].id < c[j].id]_vars
  /\ [](\A p \in Procs : req[p].pc = "apply" => req[p].in.snap = filtersCache)
  /\ [][\A p \in Procs :
          ApplyEnd(p) =>
            LET res == ApplyFilters(filtersCache, req[p].in.content)
            IN req'[p].error = res.err /\ req'[p].in.content = res.text]_vars

\* A reload of the table whose second row does not compile is installed
\* (its rows 3 and 4 are cached) while a reader that had to wait is
\* evaluating that cache.
C28_Witness ==
  /\ Len(filtersCache) = 2
  /\ filtersCache[1].id = 3 /\ filtersCache[2].id = 4
  /\ req["r1"].pc = "apply" /\ req["r2"].pc = "swap"
  /\ req["r2"].in.newCache # filtersCache

(***************************************************************************)
(* Two boards (the second made with HandleCreateBoard): threads and        *)
(* replies are posted with either board_id in the form.                    *)
(***************************************************************************)
InitBoards ==
  /\ db = [InitDB EXCEPT !.boards = [x \in {"b", "c"} |-> SeedBoard]]
  /\ storage = {}
  /\ fileSeq = 0
  /\ challenges = <<>>
  /\ tokenSeq = 0
  /\ limiters = <<>>
  /\ boardCache = <<>>
  /\ filtersCache = <<>>
  /\ now = 0
  /\ req = [p \in Procs |-> Idle(0)]
  /\ archivers = <<>>
  /\ hist = InitHist

BoardsNext ==
  \/ challenges = <<>> /\ NewChallenge(1, 1)
  \/ \E x \in {"b", "c"}, c \in Cookies, t \in 0..2, k \in DOMAIN challenges :
       PostGate(Poster,
                [PostInput(0, c, t, Hello, NoFile, k, challenges[k], <<>>)
                   EXCEPT !.board_id = x],
                "none", <<1, 1>>)
  \/ PostImage(Poster, "none")
  \/ PostTx(Poster, "none")
  \/ \E i \in 1..MaxPosts : HandleModDelete(i, "none")
  \/ Tick

SpecBoards == InitBoards /\ [][BoardsNext]_vars

\* C29: the board_id of every committed post is the board_id of the thread
\* it belongs to, for OPs and for replies.
C29_PostBoardIsThreadBoard ==
  \A i \in DOMAIN db.posts :
    /\ db.posts[i].thread_id \in DOMAIN db.threads
    /\ db.posts[i].board_id = db.threads[db.posts[i].thread_id].board_id

(***************************************************************************)
(* archiveOldThreads statement by statement.  The task runs GetBoard and   *)
(* three statements on the connection pool, each committed on its own:     *)
(* the COUNT (actions.go:567), the SELECT ... ORDER BY bump ASC LIMIT ?    *)
(* (576) and the UPDATE ... WHERE id IN (...) (598-605).  A goroutine      *)
(* between two of them has pc "select" (in.n is toArchive) or "update"     *)
(* (in.ids is threadIDs).                                                  *)
(***************************************************************************)
ArchiveCount(p, b) ==
  /\ req[p].pc = "idle"
  /\ Count(archivers, b) > 0
  /\ archivers' = [archivers EXCEPT ![b] = @ - 1]
  /\ LET gb == GetBoard(db, boardCache, b)
         over == Cardinality(Live(db, b)) - gb.cfg.max_threads
     IN /\ boardCache' = gb.cache
        /\ req' = [req EXCEPT ![p] =
                     IF gb.err \/ over <= 0 THEN Idle(0)
                     ELSE [Idle(0) EXCEPT !.pc = "select",
                             !.in = [ip |-> 0, cookie |-> 0, board_id |-> b, n |-> over]]]
  /\ UNCHANGED hist
  /\ UNCHANGED <<db, storage, fileSeq, challenges, tokenSeq, limiters, filtersCache, now>>

ArchiveSelect(p) ==
  /\ req[p].pc = "select"
  /\ LET live == Live(db, req[p].in.board_id)
         n == IF req[p].in.n < Cardinality(live) THEN req[p].in.n ELSE Cardinality(live)
     IN \E A \in Oldest(db, live, n) :
          req' = [req EXCEPT ![p] =
                    [@ EXCEPT !.pc = "update",
                              !.in = [ip |-> 0, cookie |-> 0,
                                      board_id |-> req[p].in.board_id, ids |-> A]]]
  /\ UNCHANGED hist
  /\ UNCHANGED <<db, storage, fileSeq, challenges, tokenSeq, limiters, boardCache,
                 filtersCache, now, archivers>>

ArchiveUpdate(p) ==
  /\ req[p].pc = "update"
  /\ db' = SetArchived(db, req[p].in.ids)
  /\ req' = [req EXCEPT ![p] = Idle(0)]
  /\ UNCHANGED hist
  /\ UNCHANGED <<storage, fileSeq, challenges, tokenSeq, limiters, boardCache,
                 filtersCache, now, archivers>>

ArchiversNext ==
  \/ challenges = <<>> /\ NewChallenge(1, 1)
  \/ \E p \in Procs, in \in ArchiveInputs : PostGate(p, in, "none", <<1, 1>>)
  \/ \E p \in Procs : PostImage(p, "none")
  \/ \E p \in Procs : PostTx(p, "none")
  \/ \E p \in Procs : ArchiveCount(p, "b")
  \/ \E p \in Procs : ArchiveSelect(p)
  \/ \E p \in Procs : ArchiveUpdate(p)

SpecArchivers == InitArchive /\ [][ArchiversNext]_vars

\* C30: concurrent archival tasks of one board archive no more than the
\* excess: the UPDATE of a task leaves at least min(max_threads, the number
\* before it) threads of the board neither archived nor sticky, archives no
\* sticky thread, and deletes no thread and no post.
C30_ArchiveOnlyExcess ==
  [][\A p \in Procs :
       ArchiveUpdate(p) =>
         LET b == req[p].in.board_id
             before == Cardinality(Live(db, b))
             after == Cardinality(Live(db', b))
             max == db.boards[b].max_threads
         IN /\ after >= (IF max < before THEN max ELSE before)
            /\ \A t \in DOMAIN db.threads :
                 (db'.threads[t].archived /\ ~db.threads[t].archived)
                   => ~db.threads[t].sticky
            /\ DOMAIN db'.threads = DOMAIN db.threads
            /\ db'.posts = db.posts]_vars

=============================================================================
